---- MODULE Spec2Model ----
(***************************************************************************)
(* Model of the log-structured key/value store of                          *)
(* courses/rust/projects/project-5/src/engines/kvs.rs (project-4 has the   *)
(* same writer, reader and replay code).                                   *)
(*                                                                         *)
(* A log file is a sequence of bytes.  A byte is a one-character string.   *)
(* The serde_json encoding of a Command is abstracted to a self-delimiting *)
(* frame:   Set{key,value}  ->  "{" "S" key "," value "}"                  *)
(*          Remove{key}     ->  "{" "R" key "}"                            *)
(* Keys and values are strings, i.e. sequences of letters, of different    *)
(* lengths, so record lengths and offsets differ from record to record.    *)
(* Sizes are scaled: the compaction threshold and the BufWriter capacity   *)
(* are a few bytes so that compaction happens within a few operations.     *)
(***************************************************************************)
EXTENDS Integers, Sequences, FiniteSets, TLC

\* ------------------------------------------------------------------ inputs
Keys == {<<"a">>, <<"b">>}
Values == {<<"x">>, <<"y", "y", "y", "y", "y", "y", "y">>}
Letters == {"a", "b", "x", "y"}

\* const COMPACTION_THRESHOLD (1024 * 1024 in the source, scaled to the
\* record sizes of the model: one stale long Set, or two stale short
\* records and a Remove, exceed it; a short Set and its Remove do not).
COMPACTION_THRESHOLD == 10

\* capacity of std::io::BufWriter (8 KiB in std, scaled)
BufCapacity == 8

\* number of set/remove/reopen operations of a run
MaxOps == 4

\* ------------------------------------------------------------------ helpers
Min(a, b) == IF a < b THEN a ELSE b

SetMin(S) == CHOOSE x \in S : \A y \in S : x <= y

RECURSIVE SortedSeq(_)
\* Vec::sort_unstable on generation numbers
SortedSeq(S) == IF S = {} THEN <<>> ELSE <<SetMin(S)>> \o SortedSeq(S \ {SetMin(S)})

\* ordering of String keys in the SkipMap (byte-wise lexicographic)
Rank(c) == CASE c = "a" -> 1 [] c = "b" -> 2 [] c = "x" -> 3 [] OTHER -> 4

RECURSIVE KeyLess(_, _)
KeyLess(k1, k2) ==
    IF k1 = <<>> THEN k2 # <<>>
    ELSE IF k2 = <<>> THEN FALSE
    ELSE IF Rank(Head(k1)) # Rank(Head(k2)) THEN Rank(Head(k1)) < Rank(Head(k2))
    ELSE KeyLess(Tail(k1), Tail(k2))

\* ------------------------------------------------------------------ codec
SetCmd(key, value) == [type |-> "Set", key |-> key, value |-> value]
RemoveCmd(key) == [type |-> "Remove", key |-> key, value |-> <<>>]
NoCmd == [type |-> "None", key |-> <<>>, value |-> <<>>]

\* serde_json::to_writer(&mut writer, &cmd)
EncodeCommand(cmd) ==
    IF cmd.type = "Set"
    THEN <<"{", "S">> \o cmd.key \o <<",">> \o cmd.value \o <<"}">>
    ELSE <<"{", "R">> \o cmd.key \o <<"}">>

RECURSIVE TakeString(_, _)
\* 1-based index of the first byte at or after i that is not a letter
TakeString(bytes, i) ==
    IF i <= Len(bytes) /\ bytes[i] \in Letters THEN TakeString(bytes, i + 1) ELSE i

ParseErr == [st |-> "err", cmd |-> NoCmd, next |-> 0]
ParseEof == [st |-> "eof", cmd |-> NoCmd, next |-> 0]

\* the value string of a Set frame that starts at i, its key ending before ke
ParseSetValue(bytes, i, ke, ve) ==
    IF ve > Len(bytes) \/ bytes[ve] # "}" THEN ParseErr
    ELSE [st |-> "ok",
          cmd |-> SetCmd(SubSeq(bytes, i + 2, ke - 1), SubSeq(bytes, ke + 1, ve - 1)),
          next |-> ve]

ParseSetKey(bytes, i, ke) ==
    IF ke > Len(bytes) \/ bytes[ke] # "," THEN ParseErr
    ELSE ParseSetValue(bytes, i, ke, TakeString(bytes, ke + 1))

ParseRemoveKey(bytes, i, ke) ==
    IF ke > Len(bytes) \/ bytes[ke] # "}" THEN ParseErr
    ELSE [st |-> "ok", cmd |-> RemoveCmd(SubSeq(bytes, i + 2, ke - 1)), next |-> ke]

\* One step of Deserializer::into_iter::<Command>(): the value that starts
\* at byte offset off (0-based).  "eof": no input left; "err": a truncated
\* or malformed frame, or an unknown tag; "ok": the command and the offset
\* after it.
ParseCommand(bytes, off) ==
    IF off + 1 > Len(bytes) THEN ParseEof
    ELSE IF bytes[off + 1] # "{" THEN ParseErr
    ELSE IF off + 2 > Len(bytes) THEN ParseErr
    ELSE IF bytes[off + 2] = "S"
    THEN ParseSetKey(bytes, off + 1, TakeString(bytes, off + 3))
    ELSE IF bytes[off + 2] = "R"
    THEN ParseRemoveKey(bytes, off + 1, TakeString(bytes, off + 3))
    ELSE ParseErr

\* Deserializer::end: nothing may follow the value
CheckEnd(bytes, p) == IF p.st = "ok" /\ p.next = Len(bytes) THEN p ELSE ParseErr

\* serde_json::from_reader(cmd_reader): one value, then end of input
FromReader(bytes) == CheckEnd(bytes, ParseCommand(bytes, 0))

\* ------------------------------------------------------------------ index
CommandPos(gen, start, end) == [gen |-> gen, pos |-> start, len |-> end - start]

IndexInsert(index, key, cp) ==
    [k \in DOMAIN index \cup {key} |-> IF k = key THEN cp ELSE index[k]]

IndexRemove(index, key) == [k \in DOMAIN index \ {key} |-> index[k]]

EmptyIndex == [k \in {} |-> CommandPos(0, 0, 0)]

\* a writer that does not count the entry it replaces
AddStale_Nothing(index, key, uncompacted) == uncompacted

\* old_cmd.value().len of the entry a write replaces, added to `uncompacted`
AddStale(index, key, uncompacted) ==
    IF key \in DOMAIN index THEN uncompacted + index[key].len ELSE uncompacted

\* ------------------------------------------------------------------ results
Ok == [k |-> "Ok", v |-> <<>>]
Some(value) == [k |-> "Some", v |-> value]
None == [k |-> "None", v |-> <<>>]
Err(e) == [k |-> "Err", v |-> <<e>>]

\* ------------------------------------------------------------------ files
\* The store: the directory (files: contents by generation, of every file
\* ever created; linked: the generations that still have a directory entry),
\* the shared index and safe point, the KvStoreWriter fields (current_gen,
\* wgen = the generation of the file self.writer has open, wpos = writer.pos,
\* uncompacted, wcache = writer.reader.readers), the
\* reader pool (one file-handle cache per KvStoreReader, in queue order) and
\* the locals of a running compact() call (c).
CompactIdle ==
    [phase |-> "idle", gen |-> 0, new_pos |-> 0, buf |-> <<>>, last |-> <<>>,
     stale |-> <<>>]

\* OpenOptions::new().create(true).write(true).append(true).open(path)
NewLogFile(s, gen) ==
    [s EXCEPT !.files = IF gen \in s.linked THEN s.files
                        ELSE [g \in DOMAIN s.files \cup {gen} |->
                                 IF g = gen THEN <<>> ELSE s.files[g]],
              !.linked = s.linked \cup {gen}]

\* BufWriter::write: a chunk that does not fit in the spare capacity first
\* drains the buffer to the file; a chunk as large as the buffer bypasses it.
BufWrite(buf, disk, data) ==
    LET drained == Len(data) > BufCapacity - Len(buf)
        d1 == IF drained THEN disk \o buf ELSE disk
        b1 == IF drained THEN <<>> ELSE buf
    IN  IF Len(data) >= BufCapacity
        THEN [disk |-> d1 \o data, buf |-> b1]
        ELSE [disk |-> d1, buf |-> b1 \o data]

\* a directory listing that is left in descending order
GenList_Unsorted(linked) ==
    [i \in 1..Cardinality(linked) |-> SortedSeq(linked)[Cardinality(linked) + 1 - i]]

\* sorted_gen_list(path): fs::read_dir + filter + sort_unstable
GenList(linked) == SortedSeq(linked)

sorted_gen_list(s) == GenList(s.linked)

\* close_stale_handles that closes nothing
CloseStaleIter_KeepsAll(cache, safe_point) == [stop |-> TRUE, cache |-> cache]

\* ------------------------------------------------------------------ reader
\* one iteration of the loop of close_stale_handles: "stop" when the loop
\* breaks, else the cache without its smallest generation
CloseStaleIter(cache, safe_point) ==
    IF cache = {} \/ safe_point <= SetMin(cache)
    THEN [stop |-> TRUE, cache |-> cache]
    ELSE [stop |-> FALSE, cache |-> cache \ {SetMin(cache)}]

RECURSIVE close_stale_handles(_, _)
CloseStaleLoop(it, safe_point) ==
    IF it.stop THEN it.cache ELSE close_stale_handles(it.cache, safe_point)

close_stale_handles(cache, safe_point) ==
    CloseStaleLoop(CloseStaleIter(cache, safe_point), safe_point)

\* read_and after close_stale_handles: File::open unless cached
OpenHandle(s, cache, gen) ==
    IF gen \in cache THEN [res |-> Ok, cache |-> cache]
    ELSE IF gen \in s.linked THEN [res |-> Ok, cache |-> cache \cup {gen}]
    ELSE [res |-> Err("Io"), cache |-> cache]

\* reader.seek(Start(pos)); reader.take(len): the bytes the file holds there
TakeBytes(s, cp) ==
    SubSeq(s.files[cp.gen], cp.pos + 1, Min(cp.pos + cp.len, Len(s.files[cp.gen])))

\* read_and once the handle o is there (or File::open failed)
ReadOpened(s, cp, o) ==
    IF o.res.k = "Err" THEN [res |-> o.res, cache |-> o.cache, bytes |-> <<>>]
    ELSE [res |-> Ok, cache |-> o.cache, bytes |-> TakeBytes(s, cp)]

read_and(s, cache, cp) ==
    ReadOpened(s, cp, OpenHandle(s, close_stale_handles(cache, s.safe_point), cp.gen))

\* the match of KvStore::get on what read_command decoded
ValueOf(p) ==
    IF p.st # "ok" THEN Err("Serde")
    ELSE IF p.cmd.type = "Set" THEN Some(p.cmd.value)
    ELSE Err("UnexpectedCommandType")

DecodeValue(bytes) == ValueOf(FromReader(bytes))

\* ------------------------------------------------------------------ compaction
NextKey(index, last) ==
    LET cand == {k \in DOMAIN index : last = <<>> \/ KeyLess(last[1], k)}
    IN  IF cand = {} THEN <<>>
        ELSE <<CHOOSE k \in cand : \A j \in cand : j = k \/ KeyLess(k, j)>>

\* compact() that makes current_gen + 1 the active log and compacts into
\* current_gen + 2
CompactStart_ActiveBelow(s) ==
    LET s1 == [NewLogFile(s, s.current_gen + 1) EXCEPT
                  !.current_gen = s.current_gen + 1, !.wgen = s.current_gen + 1,
                  !.wpos = 0]
    IN  [NewLogFile(s1, s.current_gen + 2) EXCEPT
            !.c = [CompactIdle EXCEPT !.phase = "copy", !.gen = s.current_gen + 2]]

\* compact(), lines 312-319
CompactStart(s) ==
    LET s1 == [NewLogFile(s, s.current_gen + 2) EXCEPT
                  !.current_gen = s.current_gen + 2, !.wgen = s.current_gen + 2,
                  !.wpos = 0]
    IN  [NewLogFile(s1, s.current_gen + 1) EXCEPT
            !.c = [CompactIdle EXCEPT !.phase = "copy", !.gen = s.current_gen + 1]]

\* the copy loop without "new_pos += len"
CopyWritten_NoAdvance(s, nk, cache, len, w) ==
    [s EXCEPT !.wcache = cache,
              !.files[s.c.gen] = w.disk,
              !.c.buf = w.buf,
              !.index = IndexInsert(s.index, nk[1],
                                    CommandPos(s.c.gen, s.c.new_pos, s.c.new_pos + len)),
              !.c.last = nk]

\* lines 326-330: the entry relocated, new_pos advanced
CopyWritten(s, nk, cache, len, w) ==
    [s EXCEPT !.wcache = cache,
              !.files[s.c.gen] = w.disk,
              !.c.buf = w.buf,
              !.index = IndexInsert(s.index, nk[1],
                                    CommandPos(s.c.gen, s.c.new_pos, s.c.new_pos + len)),
              !.c.new_pos = s.c.new_pos + len,
              !.c.last = nk]

\* lines 322-324: io::copy of what read_and delivered (r) into compaction_writer
CopyEntry(s, nk, r) ==
    IF r.res.k = "Err" THEN [s EXCEPT !.wcache = r.cache, !.c.phase = "failed"]
    ELSE CopyWritten(s, nk, r.cache, Len(r.bytes),
                     BufWrite(s.c.buf, s.files[s.c.gen], r.bytes))

CompactEntry(s, nk) ==
    IF nk = <<>> THEN [s EXCEPT !.c.phase = "flush"]
    ELSE CopyEntry(s, nk, read_and(s, s.wcache, s.index[nk[1]]))

\* one iteration of "for entry in self.index.iter()"
CompactCopy(s) == CompactEntry(s, NextKey(s.index, s.c.last))

\* compaction_writer.flush()
CompactFlush(s) ==
    [s EXCEPT !.files[s.c.gen] = s.files[s.c.gen] \o s.c.buf,
              !.c.buf = <<>>, !.c.phase = "publish"]

\* the safe point set to the generation of the new active log
CompactPublish_CurrentGen(s) == [s EXCEPT !.safe_point = s.current_gen, !.c.phase = "close"]

\* a compaction that found nothing to copy publishes no safe point
CompactPublish_ClearedWhenEmpty(s) ==
    [s EXCEPT !.safe_point = IF DOMAIN s.index = {} THEN 0 ELSE s.c.gen,
              !.c.phase = "close"]

\* self.reader.safe_point.store(compaction_gen)
CompactPublish(s) == [s EXCEPT !.safe_point = s.c.gen, !.c.phase = "close"]

\* the filter of stale generations taken as "gen <= compaction_gen"
CompactClose_IncludesCompactionGen(s) ==
    [s EXCEPT !.wcache = close_stale_handles(s.wcache, s.safe_point),
              !.c.stale = SelectSeq(sorted_gen_list(s), LAMBDA g : g <= s.c.gen),
              !.c.phase = "unlink"]

\* a compaction that leaves the oldest stale file alone
CompactClose_SkipsOldest(s) ==
    [s EXCEPT !.wcache = close_stale_handles(s.wcache, s.safe_point),
              !.c.stale = Tail(SelectSeq(sorted_gen_list(s), LAMBDA g : g < s.c.gen)),
              !.c.phase = "unlink"]

\* self.reader.close_stale_handles(); sorted_gen_list + filter
CompactClose(s) ==
    [s EXCEPT !.wcache = close_stale_handles(s.wcache, s.safe_point),
              !.c.stale = SelectSeq(sorted_gen_list(s), LAMBDA g : g < s.c.gen),
              !.c.phase = "unlink"]

\* compact() without "self.uncompacted = 0"
CompactUnlink_KeepsCounter(s) ==
    IF s.c.stale = <<>>
    THEN [s EXCEPT !.c.phase = "done"]
    ELSE [s EXCEPT !.linked = s.linked \ {Head(s.c.stale)},
                   !.c.stale = Tail(s.c.stale)]

\* one iteration of "for stale_gen in stale_gens"; after the loop
\* self.uncompacted = 0
CompactUnlink(s) ==
    IF s.c.stale = <<>>
    THEN [s EXCEPT !.uncompacted = 0, !.c.phase = "done"]
    ELSE [s EXCEPT !.linked = s.linked \ {Head(s.c.stale)},
                   !.c.stale = Tail(s.c.stale)]

\* a compaction that gives up at the first file it cannot delete
CompactUnlinkFailed_Aborts(s) == [s EXCEPT !.c.phase = "failed"]

\* lines 346-348: fs::remove_file returned Err; the error is logged and the
\* loop goes on with the next stale generation
CompactUnlinkFailed(s) == [s EXCEPT !.c.stale = Tail(s.c.stale)]

CompactStep(s) ==
    CASE s.c.phase = "copy" -> CompactCopy(s)
      [] s.c.phase = "flush" -> CompactFlush(s)
      [] s.c.phase = "publish" -> CompactPublish(s)
      [] s.c.phase = "close" -> CompactClose(s)
      [] s.c.phase = "unlink" -> CompactUnlink(s)
      [] OTHER -> s

RECURSIVE RunCompact(_)
RunCompact(s) ==
    IF s.c.phase \in {"done", "failed", "idle"} THEN s ELSE RunCompact(CompactStep(s))

\* what compact() returns once its steps are over. On the early return of a
\* `?` compaction_writer goes out of scope, and BufWriter's drop writes what
\* is still buffered to the file.
CompactResult(s) ==
    [res |-> IF s.c.phase = "failed" THEN Err("Io") ELSE Ok,
     s |-> [s EXCEPT !.files = IF s.c.buf = <<>> THEN s.files
                               ELSE [s.files EXCEPT ![s.c.gen] = @ \o s.c.buf],
                     !.c = CompactIdle]]

compact(s) == CompactResult(RunCompact(CompactStart(s)))

\* ------------------------------------------------------------------ faults
\* The calls of compact() that end in `?`, with the environment failing one
\* of them. kind names the call, at the number of index entries copied
\* before it fails.
NoFault == [kind |-> "none", at |-> 0]
Faults ==
    {[kind |-> "active", at |-> 0], [kind |-> "compaction", at |-> 0]}
    \cup {[kind |-> k, at |-> n] : k \in {"read", "write"}, n \in 0..1}

\* line 315: new_log_file(&self.path, self.current_gen)? returns Err after
\* "self.current_gen += 2" (line 314); self.writer is still the old file
CompactActiveFailed(s) ==
    [s EXCEPT !.current_gen = s.current_gen + 2, !.c.phase = "failed"]

\* line 317: new_log_file(&self.path, compaction_gen)? returns Err; the new
\* active log has been created and is self.writer
CompactCompactionFailed(s) ==
    [NewLogFile(s, s.current_gen + 2) EXCEPT
        !.current_gen = s.current_gen + 2, !.wgen = s.current_gen + 2,
        !.wpos = 0, !.c.phase = "failed"]

\* lines 322-324: read_and returns Err on the reading side (File::open,
\* seek, read); nothing of this entry was written
CopyReadFailed(s) == [s EXCEPT !.c.phase = "failed"]

\* a write of compaction_writer to its file returns Err, inside io::copy
\* (line 323) or in flush (line 332): the bytes held by the BufWriter are
\* not in the file, and the attempt of BufWriter's drop fails like the first
CopyWriteFailed(s) == [s EXCEPT !.c.buf = <<>>, !.c.phase = "failed"]

\* BufWriter::write reaches the file when it drains a non-empty buffer or
\* bypasses the buffer
WritesFile(buf, data) ==
    \/ Len(data) >= BufCapacity
    \/ buf # <<>> /\ Len(data) > BufCapacity - Len(buf)

CopyTouchesFile(s, nk) ==
    WritesFile(s.c.buf, read_and(s, s.wcache, s.index[nk[1]]).bytes)

\* one step of compact() with the fault armed
CompactFaultStep(s, kind, nk) ==
    CASE s.c.phase = "copy" /\ nk # <<>> /\ kind = "read" -> CopyReadFailed(s)
      [] s.c.phase = "copy" /\ nk # <<>> /\ kind = "write" /\ CopyTouchesFile(s, nk) ->
             CopyWriteFailed(s)
      [] s.c.phase = "flush" /\ kind = "write" /\ s.c.buf # <<>> -> CopyWriteFailed(s)
      [] OTHER -> CompactStep(s)

FaultArmed(fault, copied) ==
    \/ fault.kind = "read" /\ copied = fault.at
    \/ fault.kind = "write" /\ copied >= fault.at

RECURSIVE RunFaulty(_, _, _)
RunFaulty(s, fault, copied) ==
    IF s.c.phase \in {"done", "failed", "idle"} THEN s
    ELSE RunFaulty(IF FaultArmed(fault, copied)
                   THEN CompactFaultStep(s, fault.kind, NextKey(s.index, s.c.last))
                   ELSE CompactStep(s),
                   fault, IF s.c.phase = "copy" THEN copied + 1 ELSE copied)

\* compact() under a fault
compactFaulty(s, fault) ==
    CompactResult(CASE fault.kind = "active" -> CompactActiveFailed(s)
                    [] fault.kind = "compaction" -> CompactCompactionFailed(s)
                    [] OTHER -> RunFaulty(CompactStart(s), fault, 0))

\* ------------------------------------------------------------------ writer
\* serde_json::to_writer(&mut self.writer, &cmd); self.writer.flush()
AppendBytes(s, bytes) ==
    [s EXCEPT !.files[s.wgen] = s.files[s.wgen] \o bytes,
              !.wpos = s.wpos + Len(bytes)]

AppendCommand(s, cmd) == AppendBytes(s, EncodeCommand(cmd))

\* set that reads writer.pos after the write instead of before it
SetIndex_PosAfterWrite(s, key, s1) ==
    [s1 EXCEPT !.uncompacted = AddStale(s.index, key, s.uncompacted),
               !.index = IndexInsert(s.index, key,
                                     CommandPos(s.current_gen, s1.wpos, s1.wpos))]

\* lines 270-278: s is the writer before the append, s1 after it
SetIndex(s, key, s1) ==
    [s1 EXCEPT !.uncompacted = AddStale(s.index, key, s.uncompacted),
               !.index = IndexInsert(s.index, key,
                                     CommandPos(s.current_gen, s.wpos, s1.wpos))]

\* KvStoreWriter::set up to the threshold test
SetAppend(s, key, value) == SetIndex(s, key, AppendCommand(s, SetCmd(key, value)))

\* remove that writes the record and leaves the index entry in place
RemoveIndex_KeepsEntry(s, key, s1) ==
    [s1 EXCEPT !.uncompacted = s.uncompacted + s.index[key].len + (s1.wpos - s.wpos)]

\* lines 292-297
RemoveIndex(s, key, s1) ==
    [s1 EXCEPT !.uncompacted = s.uncompacted + s.index[key].len + (s1.wpos - s.wpos),
               !.index = IndexRemove(s.index, key)]

\* KvStoreWriter::remove up to the threshold test (the key is present)
RemoveAppend(s, key) == RemoveIndex(s, key, AppendCommand(s, RemoveCmd(key)))

\* a threshold test that is not strict
NeedsCompaction_AtThreshold(s) == s.uncompacted >= COMPACTION_THRESHOLD

NeedsCompaction(s) == s.uncompacted > COMPACTION_THRESHOLD

\* "if self.uncompacted > COMPACTION_THRESHOLD { self.compact()?; } Ok(())"
\* enabled = FALSE is the same writer with the trigger taken out (the
\* reference of compaction transparency).
AfterAppend(s, enabled) ==
    IF enabled /\ NeedsCompaction(s) THEN compact(s) ELSE [res |-> Ok, s |-> s]

\* KvStoreWriter::set
WriterSet(s, key, value, enabled) == AfterAppend(SetAppend(s, key, value), enabled)

\* remove that writes the Remove record before it looks the key up
WriterRemove_WritesFirst(s, key, enabled) ==
    IF key \in DOMAIN s.index
    THEN [res |-> Ok, s |-> RemoveAppend(s, key)]
    ELSE [res |-> Err("KeyNotFound"), s |-> AppendCommand(s, RemoveCmd(key))]

\* KvStoreWriter::remove
WriterRemove(s, key, enabled) ==
    IF key \in DOMAIN s.index
    THEN AfterAppend(RemoveAppend(s, key), enabled)
    ELSE [res |-> Err("KeyNotFound"), s |-> s]

\* ------------------------------------------------------------------ get
\* a get that never pushes the reader back
GetDecoded_DropsReader(s, cache, v) == [res |-> v, s |-> [s EXCEPT !.pool = Tail(s.pool)]]

\* the reader goes back to the pool unless `?` returned early
GetDecoded(s, cache, v) ==
    IF v = Err("Serde")
    THEN [res |-> v, s |-> [s EXCEPT !.pool = Tail(s.pool)]]
    ELSE [res |-> v, s |-> [s EXCEPT !.pool = Append(Tail(s.pool), cache)]]

GetRead(s, r) ==
    IF r.res.k = "Err"
    THEN [res |-> r.res, s |-> [s EXCEPT !.pool = Tail(s.pool)]]
    ELSE GetDecoded(s, r.cache, DecodeValue(r.bytes))

\* KvStore::get (project-5): index lookup, a reader taken from the pool
\* (pop().unwrap() panics on an empty pool), read_command, push
KvGet(s, key) ==
    IF key \notin DOMAIN s.index THEN [res |-> None, s |-> s]
    ELSE IF s.pool = <<>> THEN [res |-> Err("Panic"), s |-> s]
    ELSE GetRead(s, read_and(s, Head(s.pool), s.index[key]))

\* ------------------------------------------------------------------ open
RECURSIVE load(_, _, _, _, _)
\* replay whose Remove branch leaves the index entry in place
LoadCmd_KeepsRemoved(bytes, gen, pos, acc, p) ==
    IF p.st = "eof" THEN [ok |-> TRUE, index |-> acc.index, uncompacted |-> acc.uncompacted]
    ELSE IF p.st = "err"
    THEN [ok |-> FALSE, index |-> acc.index, uncompacted |-> acc.uncompacted]
    ELSE IF p.cmd.type = "Set"
    THEN load(bytes, gen, p.next,
              IndexInsert(acc.index, p.cmd.key, CommandPos(gen, pos, p.next)),
              AddStale(acc.index, p.cmd.key, acc.uncompacted))
    ELSE load(bytes, gen, p.next, acc.index,
              AddStale(acc.index, p.cmd.key, acc.uncompacted) + (p.next - pos))

\* replay that does not count the bytes of the Remove record itself
LoadCmd_RemoveNotCounted(bytes, gen, pos, acc, p) ==
    IF p.st = "eof" THEN [ok |-> TRUE, index |-> acc.index, uncompacted |-> acc.uncompacted]
    ELSE IF p.st = "err"
    THEN [ok |-> FALSE, index |-> acc.index, uncompacted |-> acc.uncompacted]
    ELSE IF p.cmd.type = "Set"
    THEN load(bytes, gen, p.next,
              IndexInsert(acc.index, p.cmd.key, CommandPos(gen, pos, p.next)),
              AddStale(acc.index, p.cmd.key, acc.uncompacted))
    ELSE load(bytes, gen, p.next,
              IndexRemove(acc.index, p.cmd.key),
              AddStale(acc.index, p.cmd.key, acc.uncompacted))

\* the body of the loop of load for the item p of the stream ("eof": the
\* stream ended; "err": `cmd?` returns the error)
LoadCmd(bytes, gen, pos, acc, p) ==
    IF p.st = "eof" THEN [ok |-> TRUE, index |-> acc.index, uncompacted |-> acc.uncompacted]
    ELSE IF p.st = "err"
    THEN [ok |-> FALSE, index |-> acc.index, uncompacted |-> acc.uncompacted]
    ELSE IF p.cmd.type = "Set"
    THEN load(bytes, gen, p.next,
              IndexInsert(acc.index, p.cmd.key, CommandPos(gen, pos, p.next)),
              AddStale(acc.index, p.cmd.key, acc.uncompacted))
    ELSE load(bytes, gen, p.next,
              IndexRemove(acc.index, p.cmd.key),
              AddStale(acc.index, p.cmd.key, acc.uncompacted) + (p.next - pos))

\* load(gen, reader, index): replay of one file from offset pos
load(bytes, gen, pos, index, uncompacted) ==
    LoadCmd(bytes, gen, pos, [index |-> index, uncompacted |-> uncompacted],
            ParseCommand(bytes, pos))

RECURSIVE LoadAll(_, _, _, _)
LoadNext(files, gen_list, uncompacted, l) ==
    IF ~l.ok THEN l
    ELSE LoadAll(files, Tail(gen_list), l.index, uncompacted + l.uncompacted)

\* "for &gen in &gen_list" of KvStore::open
LoadAll(files, gen_list, index, uncompacted) ==
    IF gen_list = <<>> THEN [ok |-> TRUE, index |-> index, uncompacted |-> uncompacted]
    ELSE LoadNext(files, gen_list, uncompacted,
                  load(files[Head(gen_list)], Head(gen_list), 0, index, 0))

EmptyFiles == [g \in {} |-> <<>>]

\* a new active generation that leaves one number out
NextGen_SkipsOne(gen_list) == (IF gen_list = <<>> THEN 0 ELSE gen_list[Len(gen_list)]) + 2

\* an open that goes on writing to the newest log it found
NextGen_ReusesLast(gen_list) == IF gen_list = <<>> THEN 1 ELSE gen_list[Len(gen_list)]

\* an open that numbers its log by the count of the files it found
NextGen_CountsFiles(gen_list) == Len(gen_list) + 1

\* gen_list.last().unwrap_or(&0) + 1
NextGen(gen_list) == (IF gen_list = <<>> THEN 0 ELSE gen_list[Len(gen_list)]) + 1

\* lines 82-117 of open, after the replay l
OpenWriter(files, linked, concurrency, current_gen, l) ==
    IF l.ok
    THEN [res |-> Ok,
          s |-> NewLogFile([files |-> files, linked |-> linked, index |-> l.index,
                            safe_point |-> 0, current_gen |-> current_gen,
                            wgen |-> current_gen, wpos |-> 0,
                            uncompacted |-> l.uncompacted, wcache |-> {},
                            pool |-> [i \in 1..concurrency |-> {}], c |-> CompactIdle],
                           current_gen)]
    ELSE [res |-> Err("Serde"), s |-> <<>>]

OpenLoaded(files, linked, concurrency, gen_list) ==
    OpenWriter(files, linked, concurrency, NextGen(gen_list),
               LoadAll(files, gen_list, EmptyIndex, 0))

\* KvStore::open on a directory (files, linked) with `concurrency` readers
open(files, linked, concurrency) ==
    OpenLoaded(files, linked, concurrency, GenList(linked))

\* ------------------------------------------------------------------ state
VARIABLES
    store,      \* the store under test (directory, index, writer, reader pool)
    twin,       \* the same operations on a store whose writer never compacts
    up,         \* TRUE while a KvStore value is open on the directory
    committed,  \* per key, the last operation that returned Ok (history)
    lastOp,     \* the last operation called and what it returned
    nops,       \* number of set/remove/open calls so far
    wr,         \* per writer job: its position in KvStoreWriter::set/remove
    rd,         \* per get job: its position in KvStore::get and its locals
    mutex,      \* <<w>> while job w holds the Mutex<KvStoreWriter>, else <<>>
    hist,       \* per key, the writes in the order they reached the index
    returned,   \* per key, how many writes of hist had returned to the caller
    errlog,     \* the generations "cannot be deleted" has been logged for
    tp,         \* a SharedQueueThreadPool: channel, worker threads, counters
    net         \* the sockets: KvsServer sessions, and a KvsClient with its peer

seqVars == <<twin, up, committed, lastOp, errlog, tp, net>>
concVars == <<wr, rd, mutex, hist, returned>>
vars == <<store, twin, up, committed, lastOp, nops, wr, rd, mutex, hist, returned, errlog, tp, net>>

Writers == {"w1"}
\* the writer jobs of a run in which two clones of the store write
Clones == {"w1", "w2"}
Readers == {"r1"}
\* the get jobs of a run on NaiveThreadPool: every job has its own thread
Threads == {"r1", "r2"}

\* operations of a concurrent run
MaxConcOps == 3

\* writes of a run with two concurrent gets
MaxPoolOps == 2

\* `threads` of SharedQueueThreadPool::new, and the jobs of a run on it
PoolThreads == 2
MaxJobs == 3

\* SharedQueueThreadPool::new(threads): every worker thread is in run_tasks,
\* blocked in rx.0.recv(); the pool value holds the Sender
SharedQueueNew(threads) ==
    [workers |-> [i \in 1..threads |-> "recv"], queue |-> <<>>, tx |-> TRUE,
     spawned |-> 0, ran |-> 0, res |-> Ok, built |-> TRUE]

\* ------------------------------------------------------------------ network
\* the connections of a run of KvsServer, and the frames sent over them
Conns == {"c1", "c2"}
MaxFrames == 2

\* calls of a run of KvsClient
MaxCalls == 2

\* common.rs: Request; BadReq is a frame whose payload is no Request
GetReq(key) == [type |-> "Get", key |-> key, value |-> <<>>]
SetReq(key, value) == [type |-> "Set", key |-> key, value |-> value]
RemoveReq(key) == [type |-> "Remove", key |-> key, value |-> <<>>]
BadReq == [type |-> "Bad", key |-> <<>>, value |-> <<>>]

Requests ==
    {GetReq(key) : key \in Keys} \cup {RemoveReq(key) : key \in Keys}
        \cup {SetReq(key, value) : key \in Keys, value \in Values}

\* common.rs: Response::Get(Option<String>), Set, Remove, Err(String)
Response(variant, body) == [variant |-> variant, body |-> body]

Responses ==
    {Response("Get", None), Response("Set", Ok), Response("Remove", Ok),
     Response("Err", Err("Key not found"))}
        \cup {Response("Get", Some(value)) : value \in Values}

\* format!("{}", e) through the #[fail(display = ..)] attributes of KvsError;
\* a job that panicked drops tx and the oneshot reports "oneshot canceled"
Display(e) ==
    CASE e = "KeyNotFound" -> "Key not found"
      [] e = "Serde" -> "serde_json error"
      [] e = "Io" -> "IO error"
      [] e = "UnexpectedCommandType" -> "Unexpected command type"
      [] OTHER -> "oneshot canceled"

\* the closure of and_then and the closure of then, applied to one request
\* and the outcome of its engine operation
Respond(req, res) ==
    IF res.k = "Err" THEN Response("Err", Err(Display(res.v[1])))
    ELSE IF req.type = "Get" THEN Response("Get", res)
    ELSE IF req.type = "Set" THEN Response("Set", Ok)
    ELSE Response("Remove", Ok)

\* engine.get / engine.set / engine.remove as the job runs it on a pool thread
EngineCall(s, req) ==
    IF req.type = "Get" THEN KvGet(s, req.key)
    ELSE IF req.type = "Set" THEN WriterSet(s, req.key, req.value, TRUE)
    ELSE WriterRemove(s, req.key, TRUE)

\* a connection nobody has opened yet
NoSession ==
    [st |-> "new", reqs |-> <<>>, nread |-> 0, eof |-> FALSE, jobs |-> <<>>,
     out |-> <<>>, base |-> [key \in Keys |-> None]]

\* a KvsClient after connect: nothing written, nothing read
NewClient ==
    [pc |-> "idle", req |-> BadReq, sent |-> 0, got |-> 0, inbox |-> <<>>,
     peerEof |-> FALSE, log |-> <<>>]

\* KvsServer::run has bound the listener; no connection yet
NetInit ==
    [listening |-> TRUE, serving |-> <<>>, frames |-> 0,
     conn |-> [c \in Conns |-> NoSession], cli |-> NewClient]

\* a client that takes any response that is not Err for the one it asked for
ClientMatch_AnyVariant(req, item) ==
    IF item = <<>> THEN Err("No response received")
    ELSE IF item[1].variant = "Err" THEN Err(item[1].body.v[1])
    ELSE IF item[1].variant = "Get" THEN item[1].body
    ELSE Ok

\* the match of KvsClient::get / set / remove on what send_request returned:
\* item is <<resp>> for Some(resp) and <<>> for None (the stream has ended)
ClientMatch(req, item) ==
    IF item = <<>> THEN Err("No response received")
    ELSE IF item[1].variant = "Err" THEN Err(item[1].body.v[1])
    ELSE IF item[1].variant # req.type THEN Err("Invalid response")
    ELSE IF req.type = "Get" THEN item[1].body
    ELSE Ok

Never == [st |-> "never", v |-> <<>>]
Removed == [st |-> "removed", v |-> <<>>]
Written(value) == [st |-> "set", v |-> value]

Call(op, key, res, tres) == [op |-> op, key |-> key, res |-> res, tres |-> tres]

\* rx: the oneshot Receiver of the job's result has not been dropped
WriterIdle ==
    [pc |-> "idle", op |-> "none", key |-> <<>>, value |-> <<>>, res |-> Ok, rx |-> TRUE]
ReaderIdle ==
    [pc |-> "idle", key |-> <<>>, cp |-> CommandPos(0, 0, 0), cache |-> {},
     res |-> Ok, floor |-> 0, held |-> FALSE, rx |-> TRUE]

NoJobs ==
    /\ wr = [w \in Clones |-> WriterIdle]
    /\ rd = [r \in Threads |-> ReaderIdle]
    /\ mutex = <<>>
    /\ hist = [k \in Keys |-> <<>>]
    /\ returned = [k \in Keys |-> 0]

\* KvStore::open(dir, 1) on an empty directory
Init ==
    /\ store = open(EmptyFiles, {}, 1).s
    /\ twin = open(EmptyFiles, {}, 1).s
    /\ up = TRUE
    /\ committed = [k \in Keys |-> Never]
    /\ lastOp = Call("open", <<>>, Ok, Ok)
    /\ nops = 0
    /\ errlog = {}
    /\ tp = SharedQueueNew(PoolThreads)
    /\ net = NetInit
    /\ NoJobs

\* what a finished set/remove/get leaves behind: r on the store, t on the twin
Finish(op, key, r, t, c) ==
    /\ store' = r.s
    /\ twin' = t.s
    /\ committed' = IF r.res = Ok THEN [committed EXCEPT ![key] = c] ELSE committed
    /\ lastOp' = Call(op, key, r.res, t.res)

\* store.set(key, value).wait()
Set(key, value) ==
    /\ up /\ nops < MaxOps
    /\ Finish("set", key, WriterSet(store, key, value, TRUE),
              WriterSet(twin, key, value, FALSE), Written(value))
    /\ nops' = nops + 1
    /\ UNCHANGED <<up, errlog, tp, net>>
    /\ UNCHANGED concVars

\* store.remove(key).wait()
Remove(key) ==
    /\ up /\ nops < MaxOps
    /\ Finish("remove", key, WriterRemove(store, key, TRUE),
              WriterRemove(twin, key, FALSE), Removed)
    /\ nops' = nops + 1
    /\ UNCHANGED <<up, errlog, tp, net>>
    /\ UNCHANGED concVars

\* store.get(key).wait()
Get(key) ==
    /\ up
    /\ Finish("get", key, KvGet(store, key), KvGet(twin, key), committed[key])
    /\ UNCHANGED <<up, nops, errlog, tp, net>>
    /\ UNCHANGED concVars

\* an open that fails leaves the directory as it was
Opened(r, t) ==
    /\ store' = IF r.res = Ok THEN r.s ELSE store
    /\ twin' = IF t.res = Ok THEN t.s ELSE twin
    /\ up' = (r.res = Ok)
    /\ lastOp' = Call("open", <<>>, r.res, t.res)

\* KvStore::open on the directory of a store that is no longer open
OpenDir ==
    /\ Opened(open(store.files, store.linked, 1), open(twin.files, twin.linked, 1))
    /\ nops' = nops + 1
    /\ UNCHANGED <<committed, errlog, tp, net>>
    /\ UNCHANGED concVars

\* drop(store); KvStore::open(dir, 1)
Reopen == up /\ nops < MaxOps /\ OpenDir

Next ==
    \/ \E key \in Keys, value \in Values : Set(key, value)
    \/ \E key \in Keys : Remove(key)
    \/ \E key \in Keys : Get(key)
    \/ Reopen

Spec == Init /\ [][Next]_vars

\* ------------------------------------------------------------------ failed compaction
\* store.set(key, value).wait() whose compaction fails: `self.compact()?`
\* (line 281) hands the error to the caller after the record was appended
\* and indexed
FaultySet(key, value, fault) ==
    /\ up /\ nops < MaxOps
    /\ NeedsCompaction(SetAppend(store, key, value))
    /\ compactFaulty(SetAppend(store, key, value), fault).res # Ok
    /\ Finish("set", key, compactFaulty(SetAppend(store, key, value), fault),
              WriterSet(twin, key, value, FALSE), Written(value))
    /\ nops' = nops + 1
    /\ UNCHANGED <<up, errlog, tp, net>>
    /\ UNCHANGED concVars

\* store.remove(key).wait() whose compaction fails (line 300)
FaultyRemove(key, fault) ==
    /\ up /\ nops < MaxOps
    /\ key \in DOMAIN store.index
    /\ NeedsCompaction(RemoveAppend(store, key))
    /\ compactFaulty(RemoveAppend(store, key), fault).res # Ok
    /\ Finish("remove", key, compactFaulty(RemoveAppend(store, key), fault),
              WriterRemove(twin, key, FALSE), Removed)
    /\ nops' = nops + 1
    /\ UNCHANGED <<up, errlog, tp, net>>
    /\ UNCHANGED concVars

NextFault ==
    \/ Next
    \/ \E key \in Keys, value \in Values, fault \in Faults : FaultySet(key, value, fault)
    \/ \E key \in Keys, fault \in Faults : FaultyRemove(key, fault)

SpecFault == Init /\ [][NextFault]_vars

\* ------------------------------------------------------------------ crash
\* how many bytes of a record reach the file before the process dies
CrashPoints(bytes) == {1, Len(bytes) \div 2, Len(bytes) - 1}

\* The process is killed inside to_writer/flush of set or remove: a proper
\* prefix of the record is in the active log and the call never returns.
CrashDuringWrite(cmd, n) ==
    /\ up /\ nops < MaxOps
    /\ cmd.type = "Remove" => cmd.key \in DOMAIN store.index
    /\ store' = [store EXCEPT !.files[store.wgen] =
                                 @ \o SubSeq(EncodeCommand(cmd), 1, n)]
    /\ twin' = [twin EXCEPT !.files[twin.wgen] =
                               @ \o SubSeq(EncodeCommand(cmd), 1, n)]
    /\ up' = FALSE
    /\ lastOp' = Call("crash", cmd.key, Err("Killed"), Err("Killed"))
    /\ nops' = nops + 1
    /\ UNCHANGED <<committed, errlog, tp, net>>
    /\ UNCHANGED concVars

\* KvStore::open(dir, 1) by the restarted process
Recover == ~up /\ nops < MaxOps /\ OpenDir

NextCrash ==
    \/ Next
    \/ \E key \in Keys, value \in Values :
          \E n \in CrashPoints(EncodeCommand(SetCmd(key, value))) :
              CrashDuringWrite(SetCmd(key, value), n)
    \/ \E key \in Keys :
          \E n \in CrashPoints(EncodeCommand(RemoveCmd(key))) :
              CrashDuringWrite(RemoveCmd(key), n)
    \/ Recover

SpecCrash == Init /\ [][NextCrash]_vars

\* ------------------------------------------------------------------ jobs
\* Concurrent use: set/remove/get jobs run on pool threads, one step of one
\* job at a time.  A writer job takes the mutex, appends, compacts step by
\* step if the threshold is exceeded, and returns; a get job reads the index,
\* takes a reader from the pool and goes through read_and.
InitConc ==
    /\ store = open(EmptyFiles, {}, 1).s
    /\ twin = open(EmptyFiles, {}, 1).s
    /\ up = TRUE
    /\ committed = [k \in Keys |-> Never]
    /\ lastOp = Call("open", <<>>, Ok, Ok)
    /\ nops = 0
    /\ errlog = {}
    /\ tp = SharedQueueNew(PoolThreads)
    /\ net = NetInit
    /\ NoJobs

\* KvStore::set / KvStore::remove: the job is handed to the thread pool
WStart(w, op, key, value) ==
    /\ wr[w].pc = "idle" /\ nops < MaxConcOps
    /\ wr' = [wr EXCEPT ![w] = [pc |-> "lock", op |-> op, key |-> key,
                                value |-> value, res |-> Ok, rx |-> TRUE]]
    /\ nops' = nops + 1
    /\ UNCHANGED <<store, rd, mutex, hist, returned>>
    /\ UNCHANGED seqVars

\* a job that enters the writer without waiting for the mutex
WLock_NoWait(w) ==
    /\ wr[w].pc = "lock"
    /\ mutex' = <<w>>
    /\ wr' = [wr EXCEPT ![w].pc = "append"]
    /\ UNCHANGED <<store, rd, hist, returned, nops>>
    /\ UNCHANGED seqVars

\* writer.lock().unwrap()
WLock(w) ==
    /\ wr[w].pc = "lock" /\ mutex = <<>>
    /\ mutex' = <<w>>
    /\ wr' = [wr EXCEPT ![w].pc = "append"]
    /\ UNCHANGED <<store, rd, hist, returned, nops>>
    /\ UNCHANGED seqVars

\* the record is in the log and the index is updated
Appended(w, s1, h) ==
    /\ store' = s1
    /\ hist' = [hist EXCEPT ![wr[w].key] = Append(@, h)]
    /\ wr' = [wr EXCEPT ![w].pc = IF NeedsCompaction(s1) THEN "compact" ELSE "unlock"]

\* KvStoreWriter::set / remove up to the threshold test
WAppend(w) ==
    /\ wr[w].pc = "append"
    /\ IF wr[w].op = "set"
       THEN Appended(w, SetAppend(store, wr[w].key, wr[w].value), Written(wr[w].value))
       ELSE IF wr[w].key \in DOMAIN store.index
       THEN Appended(w, RemoveAppend(store, wr[w].key), Removed)
       ELSE /\ wr' = [wr EXCEPT ![w].pc = "unlock", ![w].res = Err("KeyNotFound")]
            /\ UNCHANGED <<store, hist>>
    /\ UNCHANGED <<rd, mutex, returned, nops>>
    /\ UNCHANGED seqVars

\* compact(): lines 312-319, then one loop iteration or statement per step
WCompact(w) ==
    /\ wr[w].pc = "compact"
    /\ store.c.phase \notin {"done", "failed"}
    /\ store' = IF store.c.phase = "idle" THEN CompactStart(store) ELSE CompactStep(store)
    /\ UNCHANGED <<wr, rd, mutex, hist, returned, nops>>
    /\ UNCHANGED seqVars

Compacted(w, r) ==
    /\ store' = r.s
    /\ wr' = [wr EXCEPT ![w].pc = "unlock", ![w].res = r.res]

\* compact() returns into set/remove
WCompactEnd(w) ==
    /\ wr[w].pc = "compact"
    /\ store.c.phase \in {"done", "failed"}
    /\ Compacted(w, CompactResult(store))
    /\ UNCHANGED <<rd, mutex, hist, returned, nops>>
    /\ UNCHANGED seqVars

\* set/remove returns: the MutexGuard is dropped, the result is sent; when
\* the Receiver is gone tx.send returns Err, which is logged, and the result
\* reaches nobody
WUnlock(w) ==
    /\ wr[w].pc = "unlock"
    /\ mutex' = <<>>
    /\ returned' = IF wr[w].res = Err("KeyNotFound") \/ ~wr[w].rx THEN returned
                   ELSE [returned EXCEPT ![wr[w].key] = Len(hist[wr[w].key])]
    /\ wr' = [wr EXCEPT ![w] = WriterIdle]
    /\ rd' = [r \in Threads |-> [rd[r] EXCEPT !.held = FALSE]]
    /\ UNCHANGED <<store, hist, nops>>
    /\ UNCHANGED seqVars

\* a get that goes through the writer mutex before it looks at the index
RGet_LocksWriter(r, key) ==
    /\ rd[r].pc = "idle" /\ mutex = <<>>
    /\ rd' = [rd EXCEPT ![r] =
                 IF key \in DOMAIN store.index
                 THEN [ReaderIdle EXCEPT !.pc = "pop", !.key = key,
                                         !.cp = store.index[key],
                                         !.floor = returned[key],
                                         !.held = (mutex # <<>>)]
                 ELSE [ReaderIdle EXCEPT !.pc = "done", !.key = key, !.res = None,
                                         !.floor = returned[key],
                                         !.held = (mutex # <<>>)]]
    /\ UNCHANGED <<store, wr, mutex, hist, returned, nops>>
    /\ UNCHANGED seqVars

\* KvStore::get: index.get(&key); floor remembers which writes of the key
\* had already returned when the get looked at the index, held whether the
\* writer mutex has been held by one job ever since
RGet(r, key) ==
    /\ rd[r].pc = "idle"
    /\ rd' = [rd EXCEPT ![r] =
                 IF key \in DOMAIN store.index
                 THEN [ReaderIdle EXCEPT !.pc = "pop", !.key = key,
                                         !.cp = store.index[key],
                                         !.floor = returned[key],
                                         !.held = (mutex # <<>>)]
                 ELSE [ReaderIdle EXCEPT !.pc = "done", !.key = key, !.res = None,
                                         !.floor = returned[key],
                                         !.held = (mutex # <<>>)]]
    /\ UNCHANGED <<store, wr, mutex, hist, returned, nops>>
    /\ UNCHANGED seqVars

\* reader_pool.pop().unwrap()
RPop(r) ==
    /\ rd[r].pc = "pop"
    /\ IF store.pool = <<>>
       THEN /\ rd' = [rd EXCEPT ![r].pc = "done", ![r].res = Err("Panic")]
            /\ UNCHANGED store
       ELSE /\ rd' = [rd EXCEPT ![r].pc = "close", ![r].cache = Head(store.pool)]
            /\ store' = [store EXCEPT !.pool = Tail(store.pool)]
    /\ UNCHANGED <<wr, mutex, hist, returned, nops>>
    /\ UNCHANGED seqVars

Closed(r, it) ==
    rd' = [rd EXCEPT ![r].cache = it.cache,
                     ![r].pc = IF it.stop THEN "open" ELSE "close"]

\* one iteration of the loop of close_stale_handles
RClose(r) ==
    /\ rd[r].pc = "close"
    /\ Closed(r, CloseStaleIter(rd[r].cache, store.safe_point))
    /\ UNCHANGED <<store, wr, mutex, hist, returned, nops>>
    /\ UNCHANGED seqVars

\* a failed File::open returns through `?`: the reader is dropped
HandleOpened(r, o) ==
    rd' = IF o.res.k = "Err"
          THEN [rd EXCEPT ![r].pc = "done", ![r].res = o.res, ![r].cache = {}]
          ELSE [rd EXCEPT ![r].pc = "read", ![r].cache = o.cache]

\* read_and: File::open of the generation unless it is cached
ROpen(r) ==
    /\ rd[r].pc = "open"
    /\ HandleOpened(r, OpenHandle(store, rd[r].cache, rd[r].cp.gen))
    /\ UNCHANGED <<store, wr, mutex, hist, returned, nops>>
    /\ UNCHANGED seqVars

\* a decoding error returns through `?`; otherwise the reader is pushed back
Decoded(r, v) ==
    /\ rd' = [rd EXCEPT ![r].pc = "done", ![r].res = v, ![r].cache = {}]
    /\ store' = IF v = Err("Serde") THEN store
                ELSE [store EXCEPT !.pool = Append(store.pool, rd[r].cache)]

\* seek, take, serde_json::from_reader, reader_pool.push
RRead(r) ==
    /\ rd[r].pc = "read"
    /\ Decoded(r, DecodeValue(TakeBytes(store, rd[r].cp)))
    /\ UNCHANGED <<wr, mutex, hist, returned, nops>>
    /\ UNCHANGED seqVars

\* the result is delivered to the caller
RReturn(r) ==
    /\ rd[r].pc = "done"
    /\ rd' = [rd EXCEPT ![r] = ReaderIdle]
    /\ UNCHANGED <<store, wr, mutex, hist, returned, nops>>
    /\ UNCHANGED seqVars

NextConc ==
    \/ \E w \in Writers, key \in Keys, value \in Values : WStart(w, "set", key, value)
    \/ \E w \in Writers, key \in Keys : WStart(w, "remove", key, <<>>)
    \/ \E w \in Writers : WLock(w)
    \/ \E w \in Writers : WAppend(w)
    \/ \E w \in Writers : WCompact(w)
    \/ \E w \in Writers : WCompactEnd(w)
    \/ \E w \in Writers : WUnlock(w)
    \/ \E r \in Readers, key \in Keys : RGet(r, key)
    \/ \E r \in Readers : RPop(r)
    \/ \E r \in Readers : RClose(r)
    \/ \E r \in Readers : ROpen(r)
    \/ \E r \in Readers : RRead(r)
    \/ \E r \in Readers : RReturn(r)

SpecConc == InitConc /\ [][NextConc]_vars

\* ------------------------------------------------------------------ unlink
\* One writer, step by step, on a platform where fs::remove_file may fail
\* (a file that is still open, a directory that is read-only): the failure
\* is logged and compact() goes on.
UStart(w, op, key, value) ==
    /\ wr[w].pc = "idle" /\ up /\ nops < MaxOps
    /\ wr' = [wr EXCEPT ![w] = [pc |-> "lock", op |-> op, key |-> key,
                                value |-> value, res |-> Ok, rx |-> TRUE]]
    /\ nops' = nops + 1
    /\ UNCHANGED <<store, rd, mutex, hist, returned>>
    /\ UNCHANGED seqVars

\* fs::remove_file(&file_path) fails for the next stale generation
WUnlinkFails(w) ==
    /\ wr[w].pc = "compact"
    /\ store.c.phase = "unlink" /\ store.c.stale # <<>>
    /\ store' = CompactUnlinkFailed(store)
    /\ errlog' = errlog \cup {Head(store.c.stale)}
    /\ UNCHANGED <<twin, up, committed, lastOp, tp, net>>
    /\ UNCHANGED <<wr, rd, mutex, hist, returned, nops>>

\* drop(store); KvStore::open(dir, 1) while no job is running
UReopen == wr = [w \in Clones |-> WriterIdle] /\ Reopen

NextUnlink ==
    \/ \E w \in Writers, key \in Keys, value \in Values : UStart(w, "set", key, value)
    \/ \E w \in Writers, key \in Keys : UStart(w, "remove", key, <<>>)
    \/ \E w \in Writers : WLock(w)
    \/ \E w \in Writers : WAppend(w)
    \/ \E w \in Writers : WCompact(w)
    \/ \E w \in Writers : WUnlinkFails(w)
    \/ \E w \in Writers : WCompactEnd(w)
    \/ \E w \in Writers : WUnlock(w)
    \/ UReopen

SpecUnlink == InitConc /\ [][NextUnlink]_vars

\* ------------------------------------------------------------------ pool
\* KvStore<NaiveThreadPool>::open(dir, 1): thread::spawn per job, so two get
\* jobs run at once on a reader pool that holds one KvStoreReader.
PStart(w, op, key, value) ==
    /\ wr[w].pc = "idle" /\ nops < MaxPoolOps
    /\ wr' = [wr EXCEPT ![w] = [pc |-> "lock", op |-> op, key |-> key,
                                value |-> value, res |-> Ok, rx |-> TRUE]]
    /\ nops' = nops + 1
    /\ UNCHANGED <<store, rd, mutex, hist, returned>>
    /\ UNCHANGED seqVars

NextPool ==
    \/ \E w \in Writers, key \in Keys, value \in Values : PStart(w, "set", key, value)
    \/ \E w \in Writers, key \in Keys : PStart(w, "remove", key, <<>>)
    \/ \E w \in Writers : WLock(w)
    \/ \E w \in Writers : WAppend(w)
    \/ \E w \in Writers : WCompact(w)
    \/ \E w \in Writers : WCompactEnd(w)
    \/ \E w \in Writers : WUnlock(w)
    \/ \E r \in Threads, key \in Keys : RGet(r, key)
    \/ \E r \in Threads : RPop(r)
    \/ \E r \in Threads : RClose(r)
    \/ \E r \in Threads : ROpen(r)
    \/ \E r \in Threads : RRead(r)
    \/ \E r \in Threads : RReturn(r)

SpecPool == InitConc /\ [][NextPool]_vars

\* ------------------------------------------------------------------ drop
\* The caller drops the future that set, remove or get returned, and with
\* it the oneshot Receiver, while the job is queued or running.
DropWriterResult(w) ==
    /\ wr[w].pc # "idle" /\ wr[w].rx
    /\ wr' = [wr EXCEPT ![w].rx = FALSE]
    /\ UNCHANGED <<store, rd, mutex, hist, returned, nops>>
    /\ UNCHANGED seqVars

DropReaderResult(r) ==
    /\ rd[r].pc # "idle" /\ rd[r].rx
    /\ rd' = [rd EXCEPT ![r].rx = FALSE]
    /\ UNCHANGED <<store, wr, mutex, hist, returned, nops>>
    /\ UNCHANGED seqVars

\* the jobs of SpecPool, with callers that may drop the results
NextDrop ==
    \/ NextPool
    \/ \E w \in Writers : DropWriterResult(w)
    \/ \E r \in Threads : DropReaderResult(r)

SpecDrop == InitConc /\ [][NextDrop]_vars

\* ------------------------------------------------------------------ thread pool
\* SharedQueueThreadPool.  A worker is "recv" (blocked in recv), "ok" or
\* "panic" (running a job that returns / that panics), "exited" (left
\* run_tasks after the Sender was dropped) or "lost" (unwound by a panic with
\* no replacement thread).  A Receiver exists for every worker that is
\* neither exited nor lost.
kvVars == <<store, twin, up, committed, lastOp, nops, wr, rd, mutex, hist, returned, errlog,
           net>>

Connected(p) ==
    \E i \in DOMAIN p.workers : p.workers[i] \notin {"unstarted", "exited", "lost"}

\* spawn: self.tx.send(Box::new(job)).expect("The thread pool has no thread.")
SharedQueueSpawn(p, job) ==
    IF Connected(p)
    THEN [p EXCEPT !.queue = Append(p.queue, job), !.spawned = p.spawned + 1]
    ELSE [p EXCEPT !.res = Err("Panic"), !.spawned = p.spawned + 1]

\* TaskReceiver::drop on the thread of worker i: when the thread is
\* panicking a replacement is spawned with a clone of the receiver; if
\* thread::Builder::spawn fails the error is logged and nothing replaces it
TaskReceiverDrop(panicking, spawn_ok) ==
    IF panicking THEN (IF spawn_ok THEN "recv" ELSE "lost") ELSE "exited"

TpSpawn(job) ==
    /\ tp.built /\ tp.tx /\ tp.res = Ok /\ tp.spawned < MaxJobs
    /\ tp' = SharedQueueSpawn(tp, job)
    /\ UNCHANGED kvVars

\* run_tasks: rx.0.recv() returns Ok(task)
TpRecv(i) ==
    /\ tp.workers[i] = "recv" /\ tp.queue # <<>>
    /\ tp' = [tp EXCEPT !.workers[i] = Head(tp.queue), !.queue = Tail(tp.queue)]
    /\ UNCHANGED kvVars

\* run_tasks: task() returns, the loop goes back to recv
TpJobReturns(i) ==
    /\ tp.workers[i] = "ok"
    /\ tp' = [tp EXCEPT !.workers[i] = "recv", !.ran = tp.ran + 1]
    /\ UNCHANGED kvVars

\* run_tasks: task() panics, the thread unwinds and drops its TaskReceiver
TpJobPanics(i, spawn_ok) ==
    /\ tp.workers[i] = "panic"
    /\ tp' = [tp EXCEPT !.workers[i] = TaskReceiverDrop(TRUE, spawn_ok),
                        !.ran = tp.ran + 1]
    /\ UNCHANGED kvVars

\* the last clone of the pool is dropped: the Sender goes away
TpDropPool ==
    /\ tp.built /\ tp.tx
    /\ tp' = [tp EXCEPT !.tx = FALSE]
    /\ UNCHANGED kvVars

\* run_tasks whose Err arm does not leave the loop
TpExit_NoBreak(i) ==
    /\ tp.workers[i] = "recv" /\ tp.queue = <<>> /\ ~tp.tx
    /\ UNCHANGED tp
    /\ UNCHANGED kvVars

\* run_tasks: recv() returns Err (queue empty, no Sender), the loop breaks
TpExit(i) ==
    /\ tp.workers[i] = "recv" /\ tp.queue = <<>> /\ ~tp.tx
    /\ tp' = [tp EXCEPT !.workers[i] = TaskReceiverDrop(FALSE, FALSE)]
    /\ UNCHANGED kvVars

NextThreadPool ==
    \/ \E job \in {"ok", "panic"} : TpSpawn(job)
    \/ \E i \in 1..PoolThreads : TpRecv(i)
    \/ \E i \in 1..PoolThreads : TpJobReturns(i)
    \/ \E i \in 1..PoolThreads, spawn_ok \in BOOLEAN : TpJobPanics(i, spawn_ok)
    \/ TpDropPool
    \/ \E i \in 1..PoolThreads : TpExit(i)

SpecThreadPool == InitConc /\ [][NextThreadPool]_vars

\* project-4's SharedQueueThreadPool: the same new, spawn and TaskReceiver,
\* and a run_tasks whose Err arm only logs. A worker is "logged" when recv()
\* has returned Err and the debug! line is written.
Tp4RecvErr(i) ==
    /\ tp.workers[i] = "recv" /\ tp.queue = <<>> /\ ~tp.tx
    /\ tp' = [tp EXCEPT !.workers[i] = "logged"]
    /\ UNCHANGED kvVars

\* the end of the match: the loop goes back to recv
Tp4Loop(i) ==
    /\ tp.workers[i] = "logged"
    /\ tp' = [tp EXCEPT !.workers[i] = "recv"]
    /\ UNCHANGED kvVars

NextPool4 ==
    \/ \E job \in {"ok", "panic"} : TpSpawn(job)
    \/ \E i \in 1..PoolThreads : TpRecv(i)
    \/ \E i \in 1..PoolThreads : TpJobReturns(i)
    \/ \E i \in 1..PoolThreads, spawn_ok \in BOOLEAN : TpJobPanics(i, spawn_ok)
    \/ TpDropPool
    \/ \E i \in 1..PoolThreads : Tp4RecvErr(i)
    \/ \E i \in 1..PoolThreads : Tp4Loop(i)

\* every worker thread gets to run: whatever step it can take, it takes
SpecPool4 ==
    /\ InitConc
    /\ [][NextPool4]_vars
    /\ \A i \in 1..PoolThreads :
           /\ WF_vars(TpRecv(i))
           /\ WF_vars(TpJobReturns(i))
           /\ WF_vars(\E spawn_ok \in BOOLEAN : TpJobPanics(i, spawn_ok))
           /\ WF_vars(Tp4RecvErr(i))
           /\ WF_vars(Tp4Loop(i))

\* SharedQueueThreadPool::new(threads), statement by statement: the channel
\* exists, no worker has been started, nobody holds the pool yet
SharedQueueBegin(threads) ==
    [workers |-> [i \in 1..threads |-> "unstarted"], queue |-> <<>>, tx |-> TRUE,
     spawned |-> 0, ran |-> 0, res |-> Ok, built |-> FALSE]

InitNew ==
    /\ store = open(EmptyFiles, {}, 1).s
    /\ twin = open(EmptyFiles, {}, 1).s
    /\ up = TRUE
    /\ committed = [k \in Keys |-> Never]
    /\ lastOp = Call("open", <<>>, Ok, Ok)
    /\ nops = 0
    /\ errlog = {}
    /\ tp = SharedQueueBegin(PoolThreads)
    /\ net = NetInit
    /\ NoJobs

\* the workers new has still to start
Unstarted(p) == {i \in DOMAIN p.workers : p.workers[i] = "unstarted"}

\* one iteration of "for _ in 0..threads": thread::Builder::spawn succeeds,
\* or fails and `?` returns the error: tx and rx are dropped with the frame
NewThread(p, spawn_ok) ==
    IF spawn_ok THEN [p EXCEPT !.workers[SetMin(Unstarted(p))] = "recv"]
    ELSE [p EXCEPT !.tx = FALSE, !.res = Err("Io")]

TpNewThread(spawn_ok) ==
    /\ ~tp.built /\ tp.res = Ok /\ Unstarted(tp) # {}
    /\ tp' = NewThread(tp, spawn_ok)
    /\ UNCHANGED kvVars

\* Ok(SharedQueueThreadPool { tx })
TpNewReturns ==
    /\ ~tp.built /\ tp.res = Ok /\ Unstarted(tp) = {}
    /\ tp' = [tp EXCEPT !.built = TRUE]
    /\ UNCHANGED kvVars

NextNew ==
    \/ \E spawn_ok \in BOOLEAN : TpNewThread(spawn_ok)
    \/ TpNewReturns
    \/ NextThreadPool

\* every worker thread gets to run: a recv that can return does return
SpecNew ==
    /\ InitNew /\ [][NextNew]_vars
    /\ \A i \in 1..PoolThreads : WF_vars(TpExit(i))

\* ------------------------------------------------------------------ clones
\* set/remove jobs issued through two clones of the store: both reach the
\* one KvStoreWriter behind the shared Arc<Mutex<..>>
NextClones ==
    \/ \E w \in Clones, key \in Keys, value \in Values : WStart(w, "set", key, value)
    \/ \E w \in Clones, key \in Keys : WStart(w, "remove", key, <<>>)
    \/ \E w \in Clones : WLock(w)
    \/ \E w \in Clones : WAppend(w)
    \/ \E w \in Clones : WCompact(w)
    \/ \E w \in Clones : WCompactEnd(w)
    \/ \E w \in Clones : WUnlock(w)

SpecClones == InitConc /\ [][NextClones]_vars

\* ------------------------------------------------------------------ server
\* KvsServer::run and serve (project-5).  The peers write request frames as
\* they like (several may wait unread: pipelining); the server task takes one
\* connection at a time from for_each, and on it one request at a time from
\* and_then; the engine operation of a request is a job on a pool thread.
srvVars == <<twin, up, committed, lastOp, nops, wr, rd, mutex, hist, returned, errlog, tp>>

\* what a get of each key returns from store s
Contents(s) == [key \in Keys |-> KvGet(s, key).res]

\* TcpStream::connect by a peer: the connection waits in the accept queue
Connect(c) ==
    /\ net.listening /\ net.conn[c].st = "new"
    /\ net' = [net EXCEPT !.conn[c].st = "queued"]
    /\ UNCHANGED store /\ UNCHANGED srvVars

\* the peer writes one request frame
PeerWrite(c, req) ==
    /\ net.conn[c].st \in {"queued", "open"} /\ ~net.conn[c].eof
    /\ net.frames < MaxFrames
    /\ net' = [net EXCEPT !.conn[c].reqs = Append(@, req), !.frames = @ + 1]
    /\ UNCHANGED store /\ UNCHANGED srvVars

\* the peer closes its writing half: the request stream will end
PeerShutdown(c) ==
    /\ net.conn[c].st \in {"queued", "open"} /\ ~net.conn[c].eof
    /\ net' = [net EXCEPT !.conn[c].eof = TRUE]
    /\ UNCHANGED store /\ UNCHANGED srvVars

\* for_each calls its closure on the next connection of incoming(), which it
\* polls only while no future of an earlier connection is pending
Accept(c) ==
    /\ net.listening /\ net.serving = <<>> /\ net.conn[c].st = "queued"
    /\ net' = [net EXCEPT !.conn[c].st = "open", !.conn[c].base = Contents(store),
                          !.serving = <<c>>]
    /\ UNCHANGED store /\ UNCHANGED srvVars

\* the next frame of the connection goes through read_json and and_then: a
\* Request starts its engine job, a frame that does not decode is an Err item
ReadFrame(n, c) ==
    [n EXCEPT !.conn[c].nread = @ + 1,
              !.conn[c].jobs = Append(@,
                  [id |-> n.conn[c].nread + 1,
                   req |-> n.conn[c].reqs[n.conn[c].nread + 1],
                   st |-> IF n.conn[c].reqs[n.conn[c].nread + 1] = BadReq
                          THEN "done" ELSE "queued",
                   res |-> IF n.conn[c].reqs[n.conn[c].nread + 1] = BadReq
                           THEN Err("Serde") ELSE Ok,
                   backlog |-> Len(n.conn[c].reqs) - n.conn[c].nread - 1])]

\* a server that starts the job of the next request while an earlier one runs
SrvRead_Unordered(c) ==
    /\ net.conn[c].st = "open"
    /\ net.conn[c].nread < Len(net.conn[c].reqs)
    /\ net' = ReadFrame(net, c)
    /\ UNCHANGED store /\ UNCHANGED srvVars

\* Stream::and_then polls read_json only when the future of the previous
\* request has resolved and its item has been handed on
SrvRead(c) ==
    /\ net.conn[c].st = "open" /\ net.conn[c].jobs = <<>>
    /\ net.conn[c].nread < Len(net.conn[c].reqs)
    /\ net' = ReadFrame(net, c)
    /\ UNCHANGED store /\ UNCHANGED srvVars

\* the job of KvStore::get/set/remove runs on a pool thread and sends its
\* result through the oneshot channel
JobDone(c, j, r) ==
    /\ store' = r.s
    /\ net' = [net EXCEPT !.conn[c].jobs[j].st = "done", !.conn[c].jobs[j].res = r.res]

JobRun(c, j) ==
    /\ j \in DOMAIN net.conn[c].jobs /\ net.conn[c].jobs[j].st = "queued"
    /\ JobDone(c, j, EngineCall(store, net.conn[c].jobs[j].req))
    /\ UNCHANGED srvVars

\* seq without its j-th element
Without(seq, j) == SubSeq(seq, 1, j - 1) \o SubSeq(seq, j + 1, Len(seq))

\* then + send_all: the outcome becomes a Response and its frame is written
SrvWrite(c, j) ==
    /\ net.conn[c].st = "open"
    /\ j \in DOMAIN net.conn[c].jobs /\ net.conn[c].jobs[j].st = "done"
    /\ net' = [net EXCEPT !.conn[c].jobs = Without(@, j),
                          !.conn[c].out = Append(@,
                              [id |-> net.conn[c].jobs[j].id,
                               resp |-> Respond(net.conn[c].jobs[j].req,
                                                net.conn[c].jobs[j].res),
                               backlog |-> net.conn[c].jobs[j].backlog])]
    /\ UNCHANGED store /\ UNCHANGED srvVars

\* the future for_each was waiting for has ended: Ok lets it poll incoming()
\* again, Err (the () of map_err after error!) is the end of for_each itself
SessionEnded(n, c, ok) ==
    [n EXCEPT !.conn[c].st = IF ok THEN "closed" ELSE "failed",
              !.serving = <<>>, !.listening = ok]

\* the write of a response frame fails (the peer is gone): send_all returns
\* the error, serve's future ends with it
SrvWriteFails(c, j) ==
    /\ net.conn[c].st = "open"
    /\ j \in DOMAIN net.conn[c].jobs /\ net.conn[c].jobs[j].st = "done"
    /\ net' = SessionEnded(net, c, FALSE)
    /\ UNCHANGED store /\ UNCHANGED srvVars

\* the request stream has ended and every response is written: send_all
\* closes the sink and serve's future ends with Ok
SrvEof(c) ==
    /\ net.conn[c].st = "open" /\ net.conn[c].jobs = <<>>
    /\ net.conn[c].nread = Len(net.conn[c].reqs) /\ net.conn[c].eof
    /\ net' = SessionEnded(net, c, TRUE)
    /\ UNCHANGED store /\ UNCHANGED srvVars

NextServer ==
    \/ \E c \in Conns : Connect(c)
    \/ \E c \in Conns, req \in Requests \cup {BadReq} : PeerWrite(c, req)
    \/ \E c \in Conns : PeerShutdown(c)
    \/ \E c \in Conns : Accept(c)
    \/ \E c \in Conns : SrvRead(c)
    \/ \E c \in Conns, j \in 1..MaxFrames : JobRun(c, j)
    \/ \E c \in Conns, j \in 1..MaxFrames : SrvWrite(c, j)
    \/ \E c \in Conns, j \in 1..MaxFrames : SrvWriteFails(c, j)
    \/ \E c \in Conns : SrvEof(c)

SpecServer == Init /\ [][NextServer]_vars

\* ------------------------------------------------------------------ client
\* KvsClient on one connection whose peer writes whatever response frames it
\* likes, or closes.  get/set/remove take the client by value: after an Err
\* the client is gone.
ClientCall(req) ==
    /\ net.cli.pc = "idle" /\ Len(net.cli.log) < MaxCalls
    /\ net' = [net EXCEPT !.cli.pc = "wait", !.cli.req = req, !.cli.sent = @ + 1]
    /\ UNCHANGED store /\ UNCHANGED srvVars

\* the peer writes one response frame
PeerSend(resp) ==
    /\ ~net.cli.peerEof /\ net.frames < MaxFrames
    /\ net' = [net EXCEPT !.cli.inbox = Append(@, resp), !.frames = @ + 1]
    /\ UNCHANGED store /\ UNCHANGED srvVars

\* the peer closes the connection
PeerClose ==
    /\ ~net.cli.peerEof
    /\ net' = [net EXCEPT !.cli.peerEof = TRUE]
    /\ UNCHANGED store /\ UNCHANGED srvVars

\* read_json.into_future() has resolved with item; the call returns
Received(n, item, res) ==
    [n EXCEPT !.cli.pc = IF res.k = "Err" THEN "gone" ELSE "idle",
              !.cli.inbox = IF item = <<>> THEN @ ELSE Tail(@),
              !.cli.got = @ + Len(item),
              !.cli.log = Append(@, [req |-> n.cli.req, item |-> item, res |-> res,
                                     sent |-> n.cli.sent,
                                     got |-> n.cli.got + Len(item)])]

ClientRecv ==
    /\ net.cli.pc = "wait"
    /\ net.cli.inbox # <<>> \/ net.cli.peerEof
    /\ net' = IF net.cli.inbox # <<>>
              THEN Received(net, <<Head(net.cli.inbox)>>,
                            ClientMatch(net.cli.req, <<Head(net.cli.inbox)>>))
              ELSE Received(net, <<>>, ClientMatch(net.cli.req, <<>>))
    /\ UNCHANGED store /\ UNCHANGED srvVars

NextClient ==
    \/ \E req \in Requests : ClientCall(req)
    \/ \E resp \in Responses : PeerSend(resp)
    \/ PeerClose
    \/ ClientRecv

SpecClient == Init /\ [][NextClient]_vars

\* ================================================================== claims
\* what get must return for a key, by the history of committed operations
Expected(key) ==
    IF committed[key].st = "set" THEN Some(committed[key].v) ELSE None

\* C1: a get(k) performed after a successful set(k,v), with no later set or
\* remove of k, returns Some(v), whatever happened to other keys and however
\* many compactions ran in between.
C1_WriteRead ==
    up => /\ \A key \in Keys :
                committed[key].st = "set"
                    => KvGet(store, key).res = Some(committed[key].v)
          /\ (lastOp.op = "get" /\ committed[lastOp.key].st = "set")
                => lastOp.res = Some(committed[lastOp.key].v)

\* an overwritten key read back after a compaction relocated its record
C1_Witness ==
    /\ lastOp.op = "get" /\ lastOp.key = <<"a">> /\ lastOp.res = Some(<<"x">>)
    /\ store.safe_point > 0
    /\ store.index[<<"a">>].gen = store.safe_point
    /\ committed[<<"b">>].st = "set"

C5_CompactionTransparent ==
    up => /\ lastOp.res = lastOp.tres
          /\ \A key \in Keys :
                /\ KvGet(store, key).res = KvGet(twin, key).res
                /\ WriterRemove(store, key, TRUE).res = WriterRemove(twin, key, FALSE).res

\* a get after a compaction of the store that the twin never ran
C5_Witness ==
    /\ lastOp.op = "get" /\ lastOp.res.k = "Some"
    /\ store.safe_point > 0 /\ twin.safe_point = 0
    /\ store.index[lastOp.key].gen = store.safe_point
    /\ \E key \in Keys : committed[key] = Removed

\* C6: once set(k,v) and then remove(k) succeeded, and until k is set again,
\* get(k) returns None and remove(k) fails with KeyNotFound.
C6_RemoveRead ==
    up => /\ \A key \in Keys :
                committed[key] = Removed
                    => /\ KvGet(store, key).res = None
                       /\ WriterRemove(store, key, TRUE).res = Err("KeyNotFound")
          /\ (lastOp.op \in {"get", "remove"} /\ committed[lastOp.key] = Removed
                /\ lastOp.res # Ok)
                => lastOp.res = IF lastOp.op = "get" THEN None ELSE Err("KeyNotFound")

\* the second remove of a removed key has failed
C6_Witness ==
    /\ lastOp.op = "remove" /\ lastOp.res = Err("KeyNotFound")
    /\ committed[lastOp.key] = Removed

\* C7: remove(k) of a key that has no index entry returns KeyNotFound and
\* leaves the log files, the index, the stale-byte counter, the current
\* generation and the safe point as they were (so no compaction ran).
C7_RemoveMissingNoEffect ==
    [][\A key \in Keys :
          (up /\ nops' = nops + 1 /\ lastOp'.op = "remove" /\ lastOp'.key = key
              /\ key \notin DOMAIN store.index)
          => (lastOp'.res = Err("KeyNotFound") /\ store' = store)]_vars

\* a failed remove on a store that holds records and stale bytes
C7_Witness ==
    /\ lastOp.op = "remove" /\ lastOp.res = Err("KeyNotFound")
    /\ store.uncompacted > 0 /\ DOMAIN store.index # {}

RECURSIVE CleanLog(_, _)
\* TRUE iff the bytes from offset off on are a sequence of complete frames
CleanLogFrom(bytes, p) ==
    IF p.st = "eof" THEN TRUE ELSE IF p.st = "err" THEN FALSE ELSE CleanLog(bytes, p.next)

CleanLog(bytes, off) == CleanLogFrom(bytes, ParseCommand(bytes, off))

\* C4: when a log file ends in a truncated record, open succeeds and the
\* index is the one after the last completely written record.
C4_OpenIgnoresPartialTail ==
    (lastOp.op = "open" /\ \E g \in store.linked : ~CleanLog(store.files[g], 0))
        => /\ lastOp.res = Ok /\ up
           /\ DOMAIN store.index = {key \in Keys : committed[key].st = "set"}

\* what a finished get job may have returned, by the writes of its key
ValuesWritten(key) == {hist[key][j].v : j \in {i \in DOMAIN hist[key] : hist[key][i].st = "set"}}

\* C3: with a writer overwriting (so that compactions run) and gets running
\* concurrently, every get returns Some of a value that was set, or None;
\* never an I/O error, a decoding error or UnexpectedCommandType.
C3_ConcurrentGetNeverFails ==
    \A r \in Readers :
        rd[r].pc = "done"
            => \/ rd[r].res = None
               \/ rd[r].res.k = "Some" /\ rd[r].res.v \in ValuesWritten(rd[r].key)

\* C8: a get(k) issued after a set(k,v) has returned yields the value of that
\* set or of a later one, and None only if a remove(k) committed after it.
C8_GetAfterCompletedSet ==
    \A r \in Readers :
        (rd[r].pc = "done" /\ rd[r].floor > 0)
            => \E j \in rd[r].floor .. Len(hist[rd[r].key]) :
                  \/ rd[r].res = None /\ hist[rd[r].key][j] = Removed
                  \/ rd[r].res.k = "Some" /\ hist[rd[r].key][j] = Written(rd[r].res.v)

\* C10: at every instant, each index entry (gen, offset, length) designates
\* bytes that are present in the file of its generation and that are one
\* complete Set record of the key with the key's latest value.
C10_IndexEntriesOnDisk ==
    \A key \in DOMAIN store.index :
        FromReader(TakeBytes(store, store.index[key])).cmd
            = SetCmd(key, hist[key][Len(hist[key])].v)

\* C11: whenever the safe point has value S no index entry has a generation
\* below S; when compaction stores its generation into the safe point every
\* entry has already been relocated to that generation or a later one.
C11_NoEntryBelowSafePoint ==
    \A key \in DOMAIN store.index : store.index[key].gen >= store.safe_point

\* the safe point has just been stored by a running compaction of a live key
C11_Witness ==
    /\ store.c.phase = "close"
    /\ store.safe_point = store.c.gen
    /\ store.index # EmptyIndex

\* the generations some KvStoreReader has an open File for: the writer's own
\* reader, the readers in the pool and the readers checked out by get jobs
HeldGens ==
    store.wcache \cup UNION {store.pool[i] : i \in DOMAIN store.pool}
                 \cup UNION {rd[r].cache : r \in Threads}

\* the file of generation g still exists: it has a directory entry or an
\* open handle keeps the unlinked file alive
Present(g) == g \in store.linked \/ g \in HeldGens

\* C12: a log file is deleted only after a compaction has moved the safe
\* point above its generation, and only when no reader handle holds it open.
C12_DeletedOnlyBelowSafePoint ==
    [][\A g \in DOMAIN store.files :
          (Present(g) /\ ~Present(g)')
              => /\ store'.safe_point > g
                 /\ g \notin store'.linked
                 /\ g \notin HeldGens']_vars

\* a generation that was created is gone: unlinked by a compaction and
\* held by no reader
C12_Witness ==
    \E g \in DOMAIN store.files : ~Present(g) /\ store.safe_point > g

\* the jobs that are executing inside KvStoreWriter::set / remove / compact
InWriter == {w \in Clones : wr[w].pc \in {"append", "compact", "unlock"}}

\* C13: no two of set, remove and compact execute inside the writer at the
\* same time, and a compaction runs wholly inside the critical section of
\* the set/remove that triggered it.
C13_WriterMutualExclusion ==
    /\ Cardinality(InWriter) <= 1
    /\ \A w \in InWriter : mutex = <<w>>
    /\ store.c.phase # "idle" => \E w \in InWriter : wr[w].pc = "compact"

\* a second job waits for the mutex while the first one is compacting
C13_Witness ==
    /\ store.c.phase = "copy"
    /\ \E w \in Clones : wr[w].pc = "lock"
    /\ \E w \in Clones : wr[w].pc = "compact"

\* the next step of the get job r, whichever it is
ReaderStep(r) ==
    \/ \E key \in Keys : RGet(r, key)
    \/ RPop(r) \/ RClose(r) \/ ROpen(r) \/ RRead(r) \/ RReturn(r)

\* C14: get never acquires the writer mutex: every step of a get, the first
\* one included, can be taken whoever holds the mutex, and no step of a get
\* changes the mutex.
C14_GetNeverLocks ==
    /\ [](\A r \in Readers : ENABLED ReaderStep(r))
    /\ [][\A r \in Readers : rd'[r].pc # rd[r].pc => mutex' = mutex]_vars

\* a get that found its value has started and finished while one writer job
\* held the mutex in the middle of a compaction
C14_Witness ==
    \E r \in Readers :
        /\ rd[r].pc = "done" /\ rd[r].held /\ rd[r].res.k = "Some"
        /\ mutex # <<>> /\ store.c.phase = "unlink"

\* the generations a BufWriterWithPos<File> made by new_log_file is open on:
\* self.writer, and compaction_writer from line 317 until compact() returns
AppendHandles ==
    {store.current_gen} \cup (IF store.c.phase = "idle" THEN {} ELSE {store.c.gen})

\* the highest generation that has a directory entry
MaxGen(linked) == CHOOSE g \in linked : \A h \in linked : h <= g

\* C15 (as claimed): in every reachable state exactly one log file is open
\* for appending and it is the highest-numbered log file on disk.
C15_OneAppendHandle ==
    /\ AppendHandles = {store.current_gen}
    /\ store.current_gen = MaxGen(store.linked)

\* C15 (amended): the writer's append handle is always on the highest-numbered
\* log file; while compact() runs, the compaction file, one generation below,
\* is open for appending too; outside compact() the active log is the only
\* file open for appending, and no file without an append handle changes.
C15_AppendHandles ==
    /\ [](/\ store.current_gen = MaxGen(store.linked)
          /\ store.c.phase = "idle" => AppendHandles = {store.current_gen}
          /\ store.c.phase # "idle" =>
                 AppendHandles = {store.current_gen - 1, store.current_gen})
    /\ [][\A g \in DOMAIN store.files :
              store'.files[g] # store.files[g] => g \in AppendHandles']_vars

\* a compaction has copied a live record into the compaction file while the
\* active log is a newer file
C15_Witness ==
    /\ store.c.phase = "publish"
    /\ store.files[store.c.gen] # <<>>
    /\ AppendHandles = {store.current_gen - 1, store.current_gen}

\* every integer between the smallest and the largest generation is present
Contiguous(linked) ==
    \A g \in linked : \A h \in linked : \A m \in g..h : m \in linked

\* no set/remove is under way: the last one, if any, has returned
WritersReturned == \A w \in Clones : wr[w].pc = "idle"

C17_GetChangesOnlyReaderCache ==
    [][(lastOp'.op = "get" /\ nops' = nops)
          => /\ store' = [store EXCEPT !.pool = store'.pool]
             /\ Len(store'.pool) = Len(store.pool)
             /\ KvGet(store', lastOp'.key).res = lastOp'.res
             /\ (lastOp.op = "get" /\ lastOp.key = lastOp'.key)
                    => lastOp'.res = lastOp.res]_vars

\* a get has found its value through a handle that it opened on the
\* compaction file
C17_Witness ==
    /\ lastOp.op = "get" /\ lastOp.res.k = "Some"
    /\ store.safe_point > 0
    /\ store.pool[1] = {store.safe_point}

\* the get jobs that hold a KvStoreReader taken from the pool
Reading == {r \in Threads : rd[r].pc \in {"close", "open", "read"}}

\* C18: with concurrency 1 at most one read proceeds at a time, and a get
\* that finds the reader checked out waits for it: no get fails or panics,
\* whichever thread pool runs the jobs.
C18_GetWaitsForReader ==
    /\ Cardinality(Reading) <= 1
    /\ \A r \in Threads : rd[r].res # Err("Panic")

\* the worker threads that are in run_tasks, receiving or running a job
LiveWorkers == {i \in DOMAIN tp.workers : tp.workers[i] \in {"recv", "ok", "panic"}}

\* C19: a job that panics does not reduce the number of workers: while the
\* pool exists it has the n worker threads it was created with.
C19_WorkersRestored == tp.tx => Cardinality(LiveWorkers) = PoolThreads

\* C20: after the pool has been constructed spawn never fails, whatever
\* jobs ran before, panicking ones included.
C20_SpawnNeverFails == tp.res = Ok

\* new has returned an error
NewFailed == ~tp.built /\ tp.res = Err("Io")

\* C21: new(n) is all-or-nothing: when it returns a pool, the pool has n
\* live workers; when it returns an error no pool exists, no job ever runs
\* and every worker that had been started terminates.
C21_NewAllOrNothing ==
    /\ [][(~tp.built /\ tp'.built) => Cardinality(LiveWorkers') = PoolThreads]_vars
    /\ [](NewFailed => /\ ~tp.tx
                       /\ \A i \in DOMAIN tp.workers :
                              tp.workers[i] \in {"unstarted", "recv", "exited"})
    /\ NewFailed ~> (\A i \in DOMAIN tp.workers :
                        tp.workers[i] \in {"unstarted", "exited"})

\* new failed at its second thread and the first worker has terminated
C21_Witness ==
    /\ NewFailed
    /\ tp.workers[1] = "exited"
    /\ tp.workers[PoolThreads] = "unstarted"

\* what request req does to the contents m of the store
ApplyReq(m, req) ==
    IF req.type = "Set" THEN [m EXCEPT ![req.key] = Some(req.value)]
    ELSE IF req.type = "Remove" THEN [m EXCEPT ![req.key] = None]
    ELSE m

RECURSIVE Replay(_, _, _)
\* the contents after requests 1..n of reqs, one after the other, on base
Replay(base, reqs, n) ==
    IF n = 0 THEN base ELSE ApplyReq(Replay(base, reqs, n - 1), reqs[n])

\* the response a request is owed on contents m
ExpectedResponse(m, req) ==
    IF req.type = "Get" THEN Response("Get", m[req.key])
    ELSE IF req.type = "Set" THEN Response("Set", Ok)
    ELSE IF req.type = "Bad" THEN Response("Err", Err("serde_json error"))
    ELSE IF m[req.key] = None THEN Response("Err", Err("Key not found"))
    ELSE Response("Remove", Ok)

\* C22: on one connection the k-th response frame written answers the k-th
\* request frame read, and it is the response that request is owed after
\* requests 1..k-1 of the connection have taken effect.
C22_ResponsesInRequestOrder ==
    \A c \in Conns : \A k \in DOMAIN net.conn[c].out :
        /\ net.conn[c].out[k].id = k
        /\ net.conn[c].out[k].resp =
               ExpectedResponse(Replay(net.conn[c].base, net.conn[c].reqs, k - 1),
                                net.conn[c].reqs[k])

\* a Set and a Get of the same key were both waiting when the server read
\* the Set; the responses written are Set, then Get(Some(value))
C22_Witness ==
    \E c \in Conns :
        /\ Len(net.conn[c].out) = 2
        /\ net.conn[c].reqs[1].type = "Set"
        /\ net.conn[c].reqs[2] = GetReq(net.conn[c].reqs[1].key)
        /\ net.conn[c].out[1].backlog = 1
        /\ net.conn[c].out[1].resp = Response("Set", Ok)
        /\ net.conn[c].out[2].resp = Response("Get", Some(net.conn[c].reqs[1].value))

\* C23: a request whose engine operation fails is answered with Err and the
\* session goes on; a session ends only when its transport is broken or
\* closed; a session that has ended leaves the server serving the others.
C23_SessionsIndependent ==
    /\ [][\A c \in Conns :
             (/\ Len(net'.conn[c].out) > Len(net.conn[c].out)
              /\ net'.conn[c].out[Len(net'.conn[c].out)].resp.variant = "Err")
                 => net'.conn[c].st = "open"]_vars
    /\ [][\A c \in Conns :
             (net.conn[c].st = "open" /\ net'.conn[c].st # "open")
                 => \/ net.conn[c].eof
                    \/ \E j \in DOMAIN net.conn[c].jobs : net.conn[c].jobs[j].st = "done"]_vars
    /\ [](\A c \in Conns : net.conn[c].st \in {"closed", "failed"} => net.listening)

\* C24: a call writes one request frame and consumes one response frame (none
\* when the stream has ended); Err(message) comes back as an error with that
\* message, a response of another variant and the end of the stream as
\* errors, a response of the variant asked for as its value.
C24_OneRequestOneResponse ==
    /\ net.cli.sent = Len(net.cli.log) + (IF net.cli.pc = "wait" THEN 1 ELSE 0)
    /\ \A i \in DOMAIN net.cli.log :
          /\ net.cli.log[i].sent = i
          /\ net.cli.log[i].got = (i - 1) + Len(net.cli.log[i].item)
          /\ net.cli.log[i].item = <<>> => net.cli.log[i].res.k = "Err"
          /\ net.cli.log[i].item # <<>> =>
                IF net.cli.log[i].item[1].variant = "Err"
                THEN net.cli.log[i].res = net.cli.log[i].item[1].body
                ELSE IF net.cli.log[i].item[1].variant # net.cli.log[i].req.type
                THEN net.cli.log[i].res.k = "Err"
                ELSE net.cli.log[i].res.k # "Err"
                     /\ (net.cli.log[i].req.type = "Get"
                            => net.cli.log[i].res = net.cli.log[i].item[1].body)

\* a first call was answered with its own variant; the second, a set, was
\* answered with a Get response and returned an error
C24_Witness ==
    /\ Len(net.cli.log) = 2
    /\ net.cli.log[1].res.k # "Err"
    /\ net.cli.log[2].req.type = "Set"
    /\ net.cli.log[2].item # <<>>
    /\ net.cli.log[2].item[1].variant = "Get"
    /\ net.cli.log[2].res = Err("Invalid response")

\* the steps of a set/remove job
WriterStep(w) == WLock(w) \/ WAppend(w) \/ WCompact(w) \/ WCompactEnd(w) \/ WUnlock(w)

\* C25: a job whose deferred result the caller has dropped goes on to its
\* end: it can always take its next step, when a set or remove returns Ok
\* the record is in the log and the index, the result reaches nobody, and
\* no job panics.
C25_DroppedJobCompletes ==
    /\ [](\A w \in Writers : (wr[w].pc # "idle" /\ ~wr[w].rx) => ENABLED WriterStep(w))
    /\ [](\A r \in Threads : (rd[r].pc # "idle" /\ ~rd[r].rx) => ENABLED ReaderStep(r))
    /\ [][\A w \in Writers :
             (wr[w].pc = "unlock" /\ wr'[w].pc = "idle" /\ ~wr[w].rx)
                 => /\ returned' = returned
                    /\ wr[w].res = Ok =>
                          IF wr[w].op = "set"
                          THEN /\ wr[w].key \in DOMAIN store.index
                               /\ DecodeValue(TakeBytes(store, store.index[wr[w].key]))
                                      = Some(wr[w].value)
                          ELSE wr[w].key \notin DOMAIN store.index]_vars
    /\ [](\A r \in Threads : ~rd[r].rx => rd[r].res # Err("Panic"))

\* the step is a call of op that has returned Ok (sequential use)
Returned(op) == nops' = nops + 1 /\ lastOp'.op = op /\ lastOp'.res = Ok

\* C26: open of a directory with the generations G makes max(G)+1 the
\* active generation, 1 when G is empty; the files of G are replayed in
\* ascending order, and a file below the active generation is never
\* written again.
C26_OpenStartsNewGeneration ==
    /\ [](nops = 0 => store.current_gen = 1)
    /\ [][Returned("open") =>
             /\ store.linked # {}
             /\ store'.current_gen = MaxGen(store.linked) + 1
             /\ \A g \in store.linked : g < store'.current_gen]_vars
    /\ [](/\ \A i \in DOMAIN sorted_gen_list(store) : \A j \in DOMAIN sorted_gen_list(store) :
                 i < j => sorted_gen_list(store)[i] < sorted_gen_list(store)[j]
          /\ {sorted_gen_list(store)[i] : i \in DOMAIN sorted_gen_list(store)} = store.linked)
    /\ [][/\ store'.current_gen >= store.current_gen
          /\ \A g \in DOMAIN store.files :
                 g < store.current_gen => store'.files[g] = store.files[g]]_vars

\* the store was reopened on three log files, two of them with records
C26_Witness ==
    /\ lastOp.op = "open" /\ lastOp.res = Ok
    /\ Cardinality(store.linked) = 3
    /\ store.current_gen = MaxGen(store.linked)
    /\ Cardinality({g \in store.linked : store.files[g] # <<>>}) >= 2

\* the length of key's index entry, 0 when it has none
PrevLen(index, key) == IF key \in DOMAIN index THEN index[key].len ELSE 0

\* `uncompacted` after the accounting of op on key, before the threshold test
Accounted(s, op, key) ==
    s.uncompacted + PrevLen(s.index, key)
        + (IF op = "remove" THEN Len(EncodeCommand(RemoveCmd(key))) ELSE 0)

RECURSIVE SumLen(_, _)
\* the bytes of the index entries of keys
SumLen(index, keys) ==
    IF keys = {} THEN 0
    ELSE index[CHOOSE k \in keys : TRUE].len
             + SumLen(index, keys \ {CHOOSE k \in keys : TRUE})

RECURSIVE SumFiles(_, _)
\* the bytes of the log files gens
SumFiles(files, gens) ==
    IF gens = {} THEN 0
    ELSE Len(files[CHOOSE g \in gens : TRUE])
             + SumFiles(files, gens \ {CHOOSE g \in gens : TRUE})

\* C27: a compaction started at generation g compacts into g+1 and makes
\* g+2 the active log; when the call returns Ok the current generation is
\* g+2, the safe point g+1, every index entry lies in g+1, whose file holds
\* exactly the live records, and the stale-byte counter is 0.
C27_CompactionGenerations ==
    [][\A op \in {"set", "remove"} :
          (Returned(op) /\ Accounted(store, op, lastOp'.key) > COMPACTION_THRESHOLD)
              => /\ store'.current_gen = store.current_gen + 2
                 /\ store'.safe_point = store.current_gen + 1
                 /\ {store.current_gen + 1, store.current_gen + 2} \subseteq store'.linked
                 /\ \A k \in DOMAIN store'.index :
                        store'.index[k].gen = store.current_gen + 1
                 /\ Len(store'.files[store.current_gen + 1])
                        = SumLen(store'.index, DOMAIN store'.index)
                 /\ store'.files[store.current_gen + 2] = <<>>
                 /\ store'.uncompacted = 0]_vars

\* a remove has compacted a store whose index it had emptied
C27_Witness ==
    /\ lastOp.op = "remove" /\ lastOp.res = Ok
    /\ DOMAIN store.index = {}
    /\ store.safe_point > 0
    /\ store.current_gen = store.safe_point + 1
    /\ store.files[store.safe_point] = <<>>
    /\ store.uncompacted = 0

\* C28: the accounting of a successful set adds the length of the key's
\* previous index entry to the stale-byte counter (0 if it had none), that
\* of a successful remove adds the previous entry's length and the length
\* of the Remove record; no step of a get changes the counter.
C28_StaleAccounting ==
    /\ [][\A w \in Writers :
             (wr[w].pc = "append" /\ wr'[w].pc # "append" /\ wr'[w].res = Ok)
                 => store'.uncompacted = Accounted(store, wr[w].op, wr[w].key)]_vars
    /\ [][(rd' # rd /\ wr' = wr) => store'.uncompacted = store.uncompacted]_vars

\* a remove has been accounted: the 6 bytes of the Set it shadows and the 4
\* bytes of its own record
C28_Witness ==
    \E w \in Writers :
        /\ wr[w].pc = "unlock" /\ wr[w].op = "remove" /\ wr[w].res = Ok
        /\ store.uncompacted = 6 + Len(EncodeCommand(RemoveCmd(wr[w].key)))

\* C29: set and remove run compaction exactly when the counter, after the
\* accounting, is strictly greater than the threshold; a compaction that
\* succeeds leaves the counter 0; so a set or remove that returns Ok
\* leaves it at most the threshold.
C29_CompactionTrigger ==
    /\ [][\A w \in Writers :
             (wr[w].pc = "append" /\ wr'[w].pc # "append" /\ wr'[w].res = Ok)
                 => (wr'[w].pc = "compact"
                        <=> store'.uncompacted > COMPACTION_THRESHOLD)]_vars
    /\ [][\A w \in Writers :
             (wr[w].pc = "compact" /\ wr'[w].pc = "unlock" /\ wr'[w].res = Ok)
                 => store'.uncompacted = 0]_vars
    /\ [](\A w \in Writers :
             (wr[w].pc = "unlock" /\ wr[w].res = Ok)
                 => store.uncompacted <= COMPACTION_THRESHOLD)

\* a remove returns Ok without compaction with the counter at the threshold
C29_Witness ==
    \E w \in Writers :
        /\ wr[w].pc = "unlock" /\ wr[w].op = "remove" /\ wr[w].res = Ok
        /\ store.c.phase = "idle" /\ store.safe_point = 0
        /\ store.uncompacted = COMPACTION_THRESHOLD

\* the bytes of the log files that no index entry points to
StaleBytes(s) == SumFiles(s.files, s.linked) - SumLen(s.index, DOMAIN s.index)

\* C30: the counter that replay computes on open is the bytes of the
\* records that are not live (overwritten Sets, Removes, the Sets they
\* shadow), and it is the counter the writer held before the reopen.
C30_ReplayCounter ==
    [][Returned("open") =>
          /\ store'.uncompacted = StaleBytes(store')
          /\ store'.uncompacted = store.uncompacted]_vars

\* reopened after a set and its remove: 10 stale bytes and no key
C30_Witness ==
    /\ lastOp.op = "open" /\ lastOp.res = Ok
    /\ DOMAIN store.index = {}
    /\ store.uncompacted = 10

\* C31: a compaction into C puts every log file that is on disk with a
\* generation below C on its list of files to delete, in ascending order,
\* and deletes nothing else: C.log and the new active log (C+1).log stay. When
\* the compaction is through, what is left below C are only files whose
\* deletion failed, and where no deletion has failed the directory holds
\* exactly C.log and (C+1).log.
C31_CompactionDeletesStale ==
    /\ [][store.c.phase = "close" /\ store'.c.phase = "unlink"
              => store'.c.stale = SortedSeq({g \in store.linked : g < store.c.gen})]_vars
    /\ [][\A g \in store.linked \ store'.linked :
              /\ store.c.phase = "unlink"
              /\ g < store.c.gen
              /\ g = Head(store.c.stale)]_vars
    /\ [](store.c.phase = "done"
              => /\ {store.c.gen, store.c.gen + 1} \subseteq store.linked
                 /\ store.current_gen = store.c.gen + 1
                 /\ store.linked \ errlog \subseteq {store.c.gen, store.c.gen + 1}
                 /\ errlog = {} => store.linked = {store.c.gen, store.c.gen + 1})

\* a second compaction, which found three files below its target, is through
C31_Witness ==
    /\ store.c.phase = "done"
    /\ store.c.gen > 3
    /\ errlog = {}
    /\ store.linked = {store.c.gen, store.c.gen + 1}

\* C33: a stale file that cannot be deleted does not fail the compaction or
\* the set/remove that runs it: the compaction goes on to its end and returns
\* Ok with the safe point at its target and the counter at 0, and the next
\* compaction puts the file that was left behind on its list again.
C33_UnlinkFailureTolerated ==
    /\ [][store.c.phase = "unlink" /\ store.c.stale # <<>>
              /\ Head(store.c.stale) \in store'.linked
              => /\ store'.c.phase = "unlink"
                 /\ store'.c.stale = Tail(store.c.stale)]_vars
    /\ [][\A w \in Writers :
              wr[w].pc = "compact" /\ wr'[w].pc = "unlock"
              => /\ wr'[w].res = Ok
                 /\ store'.safe_point = store.c.gen
                 /\ store'.uncompacted = 0]_vars
    /\ [][store.c.phase = "close" /\ store'.c.phase = "unlink"
              => \A g \in errlog \cap store.linked :
                     \E i \in 1..Len(store'.c.stale) : store'.c.stale[i] = g]_vars

\* a compaction that could not delete a file has published its safe point,
\* and the next compaction is about to delete that file
C33_Witness ==
    /\ store.c.phase = "unlink"
    /\ \E g \in errlog : g < store.safe_point /\ g \in store.linked
                         /\ store.c.stale # <<>> /\ Head(store.c.stale) = g

\* what get(key) returns on s through a reader that has cached no handle
FreshGet(s, key) == KvGet([s EXCEPT !.pool = <<{}>>], key).res

\* the step is a set or remove, on a writer whose current_gen names its
\* file, that returned the error of a compaction which had created its file
\* C and failed before every entry was copied
CopyFailed ==
    /\ nops' = nops + 1
    /\ lastOp'.op \in {"set", "remove"}
    /\ lastOp'.res = Err("Io")
    /\ store.current_gen = store.wgen
    /\ store.current_gen + 1 \in store'.linked
    /\ \E k \in DOMAIN store'.index : store'.index[k].gen # store.current_gen + 1

\* C32: when a compaction fails while it copies, every key still reads as
\* its latest value (that of the store without compaction), the safe point is
\* unchanged, every file that was on disk is still there and no file but the
\* active log has changed; a later compaction that succeeds has a target
\* above every file on disk and leaves only its own two files.
C32_FailedCopyKeepsStoreReadable ==
    /\ [][CopyFailed
              => /\ \A k \in Keys : FreshGet(store', k) = FreshGet(twin', k)
                 /\ store'.safe_point = store.safe_point
                 /\ \A g \in store.linked :
                        /\ g \in store'.linked
                        /\ g # store.wgen => store'.files[g] = store.files[g]]_vars
    /\ [][\A op \in {"set", "remove"} :
              (Returned(op) /\ Accounted(store, op, lastOp'.key) > COMPACTION_THRESHOLD)
                  => /\ \A g \in store.linked : g < store'.safe_point
                     /\ store'.linked = {store'.safe_point, store'.safe_point + 1}]_vars

\* C34: a get that reads a record leaves its reader with exactly the handles
\* it had for generations at or above the safe point, plus the handle of the
\* file it read: every cached handle below the safe point is dropped before
\* the read, and none at or above it; so after a compaction into C a reader
\* that has read again holds no handle below C.
C34_ReadDropsStaleHandles ==
    /\ [][nops' = nops /\ lastOp'.op = "get" /\ lastOp'.res.k = "Some"
              => store'.pool =
                     <<{g \in store.pool[1] : g >= store.safe_point}
                           \cup {store.index[lastOp'.key].gen}>>]_vars
    /\ [](lastOp.op = "get" /\ lastOp.res.k = "Some"
              => \A g \in store.pool[1] : g >= store.safe_point)

\* after a compaction the reader has read a record of the compaction file
\* and one of the active log, and holds both handles
C34_Witness ==
    /\ lastOp.op = "get" /\ lastOp.res.k = "Some"
    /\ store.safe_point > 0
    /\ store.pool = <<{store.safe_point, store.safe_point + 1}>>

\* C35: while a store is open its safe point never goes down, and every
\* step that changes it is a step of compact() taken by the engine clone that
\* holds the writer mutex.
C35_SafePointMonotonic ==
    /\ [][store'.safe_point >= store.safe_point]_vars
    /\ [][store'.safe_point # store.safe_point
              => \E w \in Clones :
                     /\ mutex = <<w>> /\ mutex' = mutex
                     /\ wr[w].pc = "compact" /\ wr' = wr
                     /\ store.c.phase = "publish"
                     /\ store'.safe_point = store.c.gen]_vars

\* the second compaction of the store has published its safe point
C35_Witness ==
    /\ store.safe_point > 2
    /\ store.c.phase = "close"
    /\ \E w \in Clones : mutex = <<w>> /\ wr[w].pc = "compact"

\* C36: a log file that appears in the directory has a generation that no
\* file of the directory ever had and that is above all of them; the file
\* the writer appends to after an open or a compaction (also a failed one)
\* was created by that call and is empty, and between operations the
\* writer's offset is the length of the file it appends to.
C36_GenerationsNeverReused ==
    /\ [][\A g \in store'.linked \ store.linked :
              \A h \in DOMAIN store.files : g > h]_vars
    /\ [][(store'.wgen # store.wgen \/ (nops' = nops + 1 /\ lastOp'.op = "open" /\ up'))
              => /\ store'.wgen \notin DOMAIN store.files
                 /\ store'.files[store'.wgen] = <<>>
                 /\ store'.wpos = 0]_vars
    /\ [](up => store.wpos = Len(store.files[store.wgen]))

\* a store reopened on what a failed compaction left: the old log, the
\* compaction file and the active log of the attempt, and the new active log
C36_Witness ==
    /\ lastOp.op = "open" /\ up
    /\ store.linked = {1, 2, 3, 4}
    /\ store.wgen = 4 /\ store.files[4] = <<>>
    /\ store.uncompacted > COMPACTION_THRESHOLD

\* the bytes that the index entry of key designates decode to a Set of key
EntryHoldsRecord(s, key) ==
    /\ s.index[key].gen \in DOMAIN s.files
    /\ FromReader(TakeBytes(s, s.index[key])).st = "ok"
    /\ FromReader(TakeBytes(s, s.index[key])).cmd.type = "Set"
    /\ FromReader(TakeBytes(s, s.index[key])).cmd.key = key

\* C37: between operations current_gen is the generation of the file the
\* writer's append handle is open on, whatever set, remove or compaction
\* came before and however it ended; and the entry that a set leaves in the
\* index names a file and a range where a Set record of its key is.
C37_CurrentGenNamesActiveFile ==
    /\ [](up => store.current_gen = store.wgen)
    /\ [][nops' = nops + 1 /\ lastOp'.op = "set"
              => EntryHoldsRecord(store', lastOp'.key)]_vars

\* C38: whenever no get is between taking a reader from the pool and
\* handing its result over, the reader pool of a store opened with
\* concurrency 1 holds its one reader: every get put back the reader it took.
C38_ReaderReturnedToPool ==
    (\A r \in Threads : rd[r].pc \in {"idle", "done"}) => Len(store.pool) = 1

\* C39: a set (on a writer whose current_gen names its file) whose
\* compaction fails returns the error after its record was appended and
\* indexed, and the write stays: a get of the key right after it returns the
\* value of that set.
C39_FailedCompactionKeepsWrite ==
    [][(nops' = nops + 1 /\ lastOp'.op = "set" /\ lastOp'.res = Err("Io")
            /\ store.current_gen = store.wgen)
          => /\ lastOp'.key \in DOMAIN store'.index
             /\ FreshGet(store', lastOp'.key) = FreshGet(twin', lastOp'.key)
             /\ FreshGet(twin', lastOp'.key).k = "Some"]_vars

\* C40: in project-4's pool, once the Sender is gone and the queue is
\* empty, every worker thread comes to an end: it has left run_tasks, or a
\* panic of its job has ended it with no thread to replace it.
C40_WorkersTerminateAfterDrop ==
    (~tp.tx /\ tp.queue = <<>>) ~> (\A i \in 1..PoolThreads : tp.workers[i] \in {"exited", "lost"})

====
